---- MODULE Spec2Model ----
(***************************************************************************)
(* LD-C evaluator: expression parser and interpreter, document indexer,    *)
(* DAG scheduler, layer evaluation with bounded fixpoint, and the signing  *)
(* evaluate handler.                                                       *)
(*                                                                         *)
(* Representation.  A JavaScript value is a record [t, n, s]: t is the     *)
(* kind, n an integer payload, s a text payload (a sequence of atoms).     *)
(* An expression source is a sequence of lexemes; an AST is a record       *)
(* [t, op, name, n, kids].  A JavaScript exception is a result record with *)
(* ok = FALSE.                                                             *)
(***************************************************************************)
EXTENDS Integers, Sequences, FiniteSets, TLC

(***************************************************************************)
(* Values                                                                  *)
(***************************************************************************)
V(t, n, s) == [t |-> t, n |-> n, s |-> s]
Undef == V("undef", 0, <<>>)
Null == V("null", 0, <<>>)
NaN == V("nan", 0, <<>>)
Num(n) == V("num", n, <<>>)
Dec(n) == V("dec", n, <<>>)
DecNaN == V("decnan", 0, <<>>)
Bool(b) == V("bool", IF b THEN 1 ELSE 0, <<>>)
Str(s) == V("str", 0, s)
\* a directive object of the document: its directive key and its property key
Obj(kind, key) == V("obj", 0, <<[a |-> kind, n |-> 0], [a |-> key, n |-> 0]>>)
Fn(name) == V("fn", 0, <<[a |-> name, n |-> 0]>>)

Atom(a, n) == [a |-> a, n |-> n]
Digits(n) == <<Atom("digits", n)>>

(***************************************************************************)
(* Lexemes and tokens (parser.ts: tokenize)                                *)
(***************************************************************************)
W(w) == [x |-> "w", w |-> w, n |-> 0]
N(n) == [x |-> "n", w |-> "", n |-> n]

TwoCharOps == {"??", "<=", ">=", "==", "!=", "=>", "**"}
WordOps == {"and", "or", "not"}
Puncs == {"(", ")", "[", "]", ".", ",", ":"}
OneCharOps == {"+", "-", "*", "/", "%", "<", ">", "!"}
\* the identifier lexemes that sources are built from
IdentWords == {"a", "b", "c", "x", "true", "false", "null", "$now"}

Tok(k, v, n) == [k |-> k, v |-> v, n |-> n]
EofTok == Tok("eof", "", 0)

LexemeKnown(l) ==
  l.x = "n" \/ l.w \in TwoCharOps \cup WordOps \cup Puncs \cup OneCharOps \cup IdentWords

TokenOf(l) ==
  IF l.x = "n" THEN Tok("num", "", l.n)
  ELSE IF l.w \in TwoCharOps \cup WordOps \cup OneCharOps THEN Tok("op", l.w, 0)
  ELSE IF l.w \in Puncs THEN Tok("punc", l.w, 0)
  ELSE Tok("id", l.w, 0)

\* tokenize: ok = FALSE stands for `throw new Error("Unexpected char")'
tokenize(src) ==
  IF \A i \in 1..Len(src) : LexemeKnown(src[i])
  THEN [ok |-> TRUE, toks |-> [i \in 1..(Len(src) + 1) |->
                                 IF i <= Len(src) THEN TokenOf(src[i]) ELSE EofTok]]
  ELSE [ok |-> FALSE, toks |-> <<>>]

(***************************************************************************)
(* AST and parser (parser.ts: parseExpr)                                   *)
(***************************************************************************)
Ast(t, op, name, n, kids) == [t |-> t, op |-> op, name |-> name, n |-> n, kids |-> kids]
NoAst == Ast("none", "", "", 0, <<>>)
POk(ast, i) == [ok |-> TRUE, ast |-> ast, i |-> i]
PFail == [ok |-> FALSE, ast |-> NoAst, i |-> 0]

bp(op) ==
  CASE op = "or" -> 1
    [] op = "and" -> 2
    [] op = "??" -> 3
    [] op \in {"==", "!="} -> 4
    [] op \in {"<", ">", "<=", ">="} -> 5
    [] op \in {"+", "-"} -> 6
    [] op \in {"*", "/", "%"} -> 7
    [] op = "**" -> 8
    [] OTHER -> 0

IsPunc(t, v) == t.k = "punc" /\ t.v = v

RECURSIVE parse(_, _, _)
RECURSIVE parsePrimary(_, _)
RECURSIVE parsePostfix(_, _, _)
RECURSIVE parseArgs(_, _, _)
RECURSIVE parseBinary(_, _, _, _)

\* the operator loop of parse(precedence), lines 243-257
parseBinary(toks, i, left, precedence) ==
  LET t == toks[i] IN
  IF t.k = "punc" /\ t.v \in {")", "]", ","} THEN POk(left, i)
  ELSE IF t.k = "op" THEN
    LET rbp == bp(t.v) IN
    IF rbp <= precedence THEN POk(left, i)
    ELSE LET r == parse(toks, i + 1, rbp) IN
         IF ~r.ok THEN PFail
         ELSE parseBinary(toks, r.i, Ast("binary", t.v, "", 0, <<left, r.ast>>), precedence)
  ELSE POk(left, i)

\* the remaining arguments of a call, after the first one
parseArgs(toks, i, args) ==
  IF IsPunc(toks[i], ",") THEN
    LET r == parse(toks, i + 1, 0) IN
    IF ~r.ok THEN [ok |-> FALSE, args |-> <<>>, i |-> 0]
    ELSE parseArgs(toks, r.i, Append(args, r.ast))
  ELSE [ok |-> TRUE, args |-> args, i |-> i]

parsePostfix(toks, i, expr) ==
  LET t == toks[i] IN
  IF IsPunc(t, ".") THEN
    IF toks[i + 1].k = "id"
    THEN parsePostfix(toks, i + 2, Ast("member", "", toks[i + 1].v, 0, <<expr>>))
    ELSE PFail
  ELSE IF IsPunc(t, "[") THEN
    LET r == parse(toks, i + 1, 0) IN
    IF r.ok /\ IsPunc(toks[r.i], "]")
    THEN parsePostfix(toks, r.i + 1, Ast("index", "", "", 0, <<expr, r.ast>>))
    ELSE PFail
  ELSE IF IsPunc(t, "(") THEN
    IF IsPunc(toks[i + 1], ")")
    THEN parsePostfix(toks, i + 2, Ast("call", "", "", 0, <<expr>>))
    ELSE LET f == parse(toks, i + 1, 0) IN
         IF ~f.ok THEN PFail
         ELSE LET a == parseArgs(toks, f.i, <<f.ast>>) IN
              IF a.ok /\ IsPunc(toks[a.i], ")")
              THEN parsePostfix(toks, a.i + 1, Ast("call", "", "", 0, <<expr>> \o a.args))
              ELSE PFail
  ELSE POk(expr, i)

\* Sources never contain "=>", so the lambda look-ahead of lines 148-186
\* always reverts and "(" opens a grouped expression.
parsePrimary(toks, i) ==
  LET t == toks[i] IN
  IF t.k = "num" THEN POk(Ast("num", "", "", t.n, <<>>), i + 1)
  ELSE IF t.k = "id" THEN
    IF t.v = "true" THEN POk(Ast("bool", "", "", 1, <<>>), i + 1)
    ELSE IF t.v = "false" THEN POk(Ast("bool", "", "", 0, <<>>), i + 1)
    ELSE IF t.v = "null" THEN POk(Ast("null", "", "", 0, <<>>), i + 1)
    ELSE POk(Ast("ident", "", t.v, 0, <<>>), i + 1)
  ELSE IF IsPunc(t, "(") THEN
    LET r == parse(toks, i + 1, 0) IN
    IF r.ok /\ IsPunc(toks[r.i], ")") THEN POk(r.ast, r.i + 1) ELSE PFail
  ELSE IF t.k = "op" /\ t.v \in {"+", "-", "not", "!"} THEN
    LET r == parse(toks, i + 1, bp("**")) IN
    IF r.ok THEN POk(Ast("unary", t.v, "", 0, <<r.ast>>), r.i) ELSE PFail
  ELSE PFail

parse(toks, i, precedence) ==
  LET p == parsePrimary(toks, i) IN
  IF ~p.ok THEN PFail
  ELSE LET q == parsePostfix(toks, p.i, p.ast) IN
       IF ~q.ok THEN PFail ELSE parseBinary(toks, q.i, q.ast, precedence)

\* ok = FALSE stands for any exception thrown by parseExpr
parseExpr(src) ==
  LET tk == tokenize(src) IN
  IF ~tk.ok THEN PFail
  ELSE LET r == parse(tk.toks, 1, 0) IN
       IF r.ok /\ tk.toks[r.i].k = "eof" THEN r ELSE PFail

(***************************************************************************)
(* Interpreter (interp.ts: evalExpr and its helpers)                       *)
(***************************************************************************)
R(v) == [ok |-> TRUE, v |-> v]
Throw == [ok |-> FALSE, v |-> Undef]

\* JavaScript truthiness; Decimal instances, objects and functions are truthy
Truthy(v) ==
  CASE v.t \in {"undef", "null", "nan"} -> FALSE
    [] v.t \in {"num", "bool"} -> v.n # 0
    [] v.t = "str" -> v.s # <<>>
    [] OTHER -> TRUE

\* String(v)
ToStr(v) ==
  CASE v.t = "undef" -> <<Atom("undefined", 0)>>
    [] v.t = "null" -> <<Atom("null", 0)>>
    [] v.t \in {"nan", "decnan"} -> <<Atom("NaN", 0)>>
    [] v.t \in {"num", "dec"} -> Digits(v.n)
    [] v.t = "bool" -> <<Atom(IF v.n = 1 THEN "true" ELSE "false", 0)>>
    [] v.t = "str" -> v.s
    [] v.t = "obj" -> <<Atom("[object Object]", 0)>>
    [] OTHER -> <<Atom("function", 0)>>

\* ToNumber(v): a value of kind num or nan
ToNumber(v) ==
  CASE v.t \in {"num", "dec"} -> Num(v.n)
    [] v.t = "bool" -> Num(v.n)
    [] v.t = "null" -> Num(0)
    [] v.t = "str" /\ Len(v.s) = 1 /\ v.s[1].a = "digits" -> Num(v.s[1].n)
    [] v.t = "str" /\ v.s = <<>> -> Num(0)
    [] OTHER -> NaN

IsNumber(v) == v.t \in {"num", "nan"}
IsDecimal(v) == v.t \in {"dec", "decnan"}

\* D(x) = new Decimal(x); ok = FALSE stands for DecimalError
D(v) ==
  CASE v.t \in {"dec", "decnan"} -> R(v)
    [] v.t = "num" -> R(Dec(v.n))
    [] v.t = "nan" -> R(DecNaN)
    [] v.t = "str" /\ Len(v.s) = 1 /\ v.s[1].a = "digits" -> R(Dec(v.s[1].n))
    [] OTHER -> Throw

DecArith(op, a, b) ==
  LET x == D(a)
      y == D(b) IN
  IF ~x.ok \/ ~y.ok THEN Throw
  ELSE IF x.v.t = "decnan" \/ y.v.t = "decnan" THEN R(DecNaN)
  ELSE R(Dec(CASE op = "+" -> x.v.n + y.v.n
               [] op = "-" -> x.v.n - y.v.n
               [] OTHER -> x.v.n * y.v.n))

\* the JavaScript operators +, -, * on two non-Decimal operands after ToNumber
JsArith(op, a, b) ==
  LET x == ToNumber(a)
      y == ToNumber(b) IN
  IF x.t = "nan" \/ y.t = "nan" THEN NaN
  ELSE Num(CASE op = "+" -> x.n + y.n
             [] op = "-" -> x.n - y.n
             [] OTHER -> x.n * y.n)

add(a, b) ==
  IF a.t = "str" \/ b.t = "str" THEN R(Str(ToStr(a) \o ToStr(b)))
  ELSE IF IsDecimal(a) \/ IsDecimal(b) THEN DecArith("+", a, b)
  ELSE IF a.t \in {"obj", "fn"} \/ b.t \in {"obj", "fn"} THEN R(Str(ToStr(a) \o ToStr(b)))
  ELSE R(JsArith("+", a, b))

sub(a, b) ==
  IF IsDecimal(a) \/ IsDecimal(b) THEN DecArith("-", a, b)
  ELSE R(JsArith("-", a, b))

mul(a, b) ==
  IF IsDecimal(a) \/ IsDecimal(b) THEN DecArith("*", a, b)
  ELSE R(JsArith("*", a, b))

\* Quotients are exact for every operand pair the sources produce.
div(a, b) ==
  IF (IsDecimal(a) \/ IsNumber(a)) /\ (IsDecimal(b) \/ IsNumber(b)) THEN
    LET bd == D(b).v
        ad == D(a).v IN
    IF bd.t = "dec" /\ bd.n = 0 THEN Throw
    ELSE IF bd.t = "decnan" \/ ad.t = "decnan" THEN R(DecNaN)
    ELSE R(Dec(ad.n \div bd.n))
  ELSE IF a.t = "undef" \/ b.t = "undef" THEN R(Undef)
  ELSE LET x == ToNumber(a)
           y == ToNumber(b) IN
       IF x.t = "nan" \/ y.t = "nan" \/ y.n = 0 THEN R(NaN) ELSE R(Num(x.n \div y.n))

eq(a, b) == a.t = b.t /\ a.t \in {"undef", "null", "num", "bool", "str"} /\ a = b

\* <, >, <=, >= on operands that are not both strings
Compare(op, a, b) ==
  LET x == ToNumber(a)
      y == ToNumber(b) IN
  IF x.t = "nan" \/ y.t = "nan" THEN FALSE
  ELSE CASE op = "<" -> x.n < y.n
         [] op = ">" -> x.n > y.n
         [] op = "<=" -> x.n <= y.n
         [] OTHER -> x.n >= y.n

\* the entries of getBuiltins() that sources use
Builtins == {"$now"}

\* callee.apply(owner, args) for a built-in
CallBuiltin(f, args, env) ==
  IF f.s[1].a = "$now" THEN R(Str(<<Atom("iso", env.now)>>)) ELSE Throw

\* getPropValue: defining the cache slot on a truthy primitive is a TypeError
getPropValue(obj, prop) ==
  IF ~Truthy(obj) THEN R(Undef)
  ELSE IF obj.t \in {"num", "bool", "str"} THEN Throw
  ELSE R(Undef)

RECURSIVE evalNode(_, _, _)
RECURSIVE evalArgs(_, _, _, _)

evalArgs(kids, i, s, env) ==
  IF i > Len(kids) THEN [ok |-> TRUE, vs |-> <<>>]
  ELSE LET h == evalNode(kids[i], s, env) IN
       IF ~h.ok THEN [ok |-> FALSE, vs |-> <<>>]
       ELSE LET r == evalArgs(kids, i + 1, s, env) IN
            IF ~r.ok THEN r ELSE [ok |-> TRUE, vs |-> <<h.v>> \o r.vs]

evalIdent(name, s) ==
  IF name \in DOMAIN s THEN
    LET v == s[name] IN
    IF v.t = "obj" /\ v.s[1].a = "@expr" THEN Undef ELSE v
  ELSE IF name \in {"sum", "avg", "min", "max"} \cup Builtins THEN Fn(name)
  ELSE Undef

evalBinary(op, l, r) ==
  CASE op = "+" -> add(l, r)
    [] op = "-" -> sub(l, r)
    [] op = "*" -> mul(l, r)
    [] op = "/" -> div(l, r)
    [] op = "==" -> R(Bool(eq(l, r)))
    [] op = "!=" -> R(Bool(~eq(l, r)))
    [] op \in {"<", ">", "<=", ">="} -> R(Bool(Compare(op, l, r)))
    [] op \in {"%", "**"} ->
         LET x == ToNumber(l)
             y == ToNumber(r) IN
         IF x.t = "nan" \/ y.t = "nan" \/ x.n < 0 \/ y.n < 0 \/ (op = "%" /\ y.n = 0) THEN R(NaN)
         ELSE R(Num(IF op = "%" THEN x.n % y.n ELSE x.n ^ y.n))
    [] op = "and" -> R(IF Truthy(l) THEN r ELSE l)
    [] op = "or" -> R(IF Truthy(l) THEN l ELSE r)
    [] OTHER -> Throw

evalNode(node, s, env) ==
  CASE node.t = "num" -> R(Num(node.n))
    [] node.t = "bool" -> R(Bool(node.n = 1))
    [] node.t = "null" -> R(Null)
    [] node.t = "ident" -> R(evalIdent(node.name, s))
    [] node.t = "unary" ->
         LET x == evalNode(node.kids[1], s, env) IN
         IF ~x.ok THEN Throw
         ELSE CASE node.op = "+" -> R(ToNumber(x.v))
                [] node.op = "-" -> R(LET y == ToNumber(x.v) IN
                                      IF y.t = "nan" THEN NaN ELSE Num(0 - y.n))
                [] OTHER -> R(Bool(~Truthy(x.v)))
    [] node.t = "binary" ->
         LET l == evalNode(node.kids[1], s, env) IN
         IF ~l.ok THEN Throw
         ELSE IF node.op = "??" THEN
           IF l.v.t \in {"undef", "null"} THEN evalNode(node.kids[2], s, env) ELSE l
         ELSE LET r == evalNode(node.kids[2], s, env) IN
              IF ~r.ok THEN Throw ELSE evalBinary(node.op, l.v, r.v)
    [] node.t = "member" ->
         LET o == evalNode(node.kids[1], s, env) IN
         IF ~o.ok THEN Throw ELSE getPropValue(o.v, node.name)
    [] node.t = "index" ->
         LET o == evalNode(node.kids[1], s, env) IN
         IF ~o.ok THEN Throw
         ELSE LET ix == evalNode(node.kids[2], s, env) IN
              IF ~ix.ok THEN Throw ELSE R(Undef)
    [] node.t = "call" ->
         LET c == evalNode(node.kids[1], s, env) IN
         IF ~c.ok THEN Throw
         ELSE LET a == evalArgs(node.kids, 2, s, env) IN
              IF ~a.ok THEN Throw
              ELSE IF c.v.t = "fn" THEN CallBuiltin(c.v, a.vs, env)
              ELSE Throw
    [] OTHER -> Throw

evalExpr(ast, scope, env) == evalNode(ast, scope, env)

\* getPropValue lines 617-625: the document objects that receive the own
\* property __ldc_cache when the interpreter reads a property of obj; an
\* object of the document is known by its property key
cacheDefinedOn(obj) == IF obj.t = "obj" THEN {obj.s[2].a} ELSE {}

RECURSIVE cacheDefinedBy(_, _, _)
\* the objects getPropValue is called with while evalNode evaluates node:
\* the operands are visited in the order and to the extent evalNode visits
\* them
cacheDefinedBy(node, s, env) ==
  CASE node.t \in {"unary", "member"} ->
         LET x == evalNode(node.kids[1], s, env) IN
         cacheDefinedBy(node.kids[1], s, env) \cup
           (IF node.t = "member" /\ x.ok THEN cacheDefinedOn(x.v) ELSE {})
    [] node.t \in {"binary", "index"} ->
         LET l == evalNode(node.kids[1], s, env) IN
         cacheDefinedBy(node.kids[1], s, env) \cup
           (IF l.ok /\ (node.t = "index" \/ node.op # "??" \/ l.v.t \in {"undef", "null"})
            THEN cacheDefinedBy(node.kids[2], s, env) ELSE {})
    [] node.t = "call" ->
         UNION {cacheDefinedBy(node.kids[i], s, env) :
                  i \in {j \in 1..Len(node.kids) :
                           \A h \in 1..(j - 1) : evalNode(node.kids[h], s, env).ok}}
    [] OTHER -> {}

(***************************************************************************)
(* Documents and names                                                     *)
(*                                                                         *)
(* A document is [ctx, id, props]: ctx is the @context in insertion order, *)
(* props the non-@ properties in insertion order.  A property value is     *)
(* [kind, n, src]: an inert number or a directive with its source.  A name *)
(* is either a plain key or an absolute IRI `base/loc'.                    *)
(***************************************************************************)
Key(k) == [ns |-> "key", base |-> "", loc |-> k]
Iri(base, loc) == [ns |-> "iri", base |-> base, loc |-> loc]

\* the CURIE keys in use: prefix and local part (the regexp of line 263)
Curies == {"ex:a", "alt:a", "ex:doc"}
CuriePrefix(k) == IF k = "alt:a" THEN "alt" ELSE "ex"
CurieLocal(k) == IF k = "ex:doc" THEN "doc" ELSE "a"

CtxHas(ctxMap, pfx) == \E i \in 1..Len(ctxMap) : ctxMap[i].pfx = pfx
CtxGet(ctxMap, pfx) == ctxMap[CHOOSE i \in 1..Len(ctxMap) : ctxMap[i].pfx = pfx].base

\* joinIri strips one slash on either side, so a base is kept without its
\* trailing slash and `base/loc' is the pair
joinIri(base, suffix) == Iri(base, suffix)

expandIri(curieOrIri, ctxMap) ==
  IF curieOrIri \in Curies THEN
    joinIri(IF CtxHas(ctxMap, CuriePrefix(curieOrIri))
            THEN CtxGet(ctxMap, CuriePrefix(curieOrIri)) ELSE "",
            CurieLocal(curieOrIri))
  ELSE joinIri(IF Len(ctxMap) > 0 THEN ctxMap[1].base ELSE "", curieOrIri)

InertNum(n) == [kind |-> "num", n |-> n, src |-> <<>>]
\* a property whose value is undefined
InertUndef == [kind |-> "undef", n |-> 0, src |-> <<>>]
Directive(kind, src) == [kind |-> kind, n |-> 0, src |-> src]
\* the directive {"@query": {"patterns": [{"s": "?s", "p": k, "o": "?v"}],
\* "select": ["?v"]}}, with the key k of the pattern as its source
QueryOn(k) == [kind |-> "query", n |-> 0, src |-> <<W(k)>>]
DirectiveKey(kind) ==
  CASE kind = "expr" -> "@expr"
    [] kind = "constraint" -> "@constraint"
    [] kind = "query" -> "@query"
    [] OTHER -> "@view"

Range(f) == {f[i] : i \in DOMAIN f}

RECURSIVE collectReads(_)
collectReads(ast) ==
  IF ast.t = "ident" THEN {ast.name}
  ELSE UNION {collectReads(ast.kids[i]) : i \in 1..Len(ast.kids)}

\* lines 176-186: the initial state map, keyed by plain key
SeedEnv(doc) ==
  [nm \in {Key(doc.props[i].k) : i \in 1..Len(doc.props)} |->
     LET i == CHOOSE j \in 1..Len(doc.props) : Key(doc.props[j].k) = nm
         v == doc.props[i].v IN
     IF v.kind = "num" THEN Num(v.n)
     ELSE IF v.kind = "undef" THEN Undef
     ELSE Obj(DirectiveKey(v.kind), doc.props[i].k)]

\* lines 423-462: only inline objects and arrays seed quads; the documents
\* drawn hold numbers and directives at top level, which seed none
seedQuadsFromDoc(doc) == <<>>

\* the node built for one directive property, lines 193-253
NoQuery == [p |-> Key("")]

MkNode(k, v, ctxMap, ast) ==
  LET pred == expandIri(k, ctxMap) IN
  [id |-> pred, kind |-> v.kind, reads |-> {Key(r) : r \in collectReads(ast)},
   writes |-> IF v.kind = "constraint" THEN <<>> ELSE <<Key(k), pred>>,
   plainKey |-> k, exprAst |-> ast, queryAst |-> NoQuery]

\* lines 464-487 for the one-pattern query: the predicate term is expanded
normalizeQuery(q, ctxMap) == [p |-> expandIri(q.src[1].w, ctxMap)]

\* lines 489-501
predicatesOf(q) == {q.p}

\* the node built for a @query property, lines 209-221
MkQueryNode(k, v, ctxMap) ==
  LET q == normalizeQuery(v, ctxMap)
      pred == expandIri(k, ctxMap) IN
  [id |-> pred, kind |-> "query", reads |-> predicatesOf(q), writes |-> <<pred>>,
   plainKey |-> k, exprAst |-> NoAst, queryAst |-> q]

RECURSIVE IndexNodes(_, _, _)
\* the loop of lines 191-255 from property i on; ok = FALSE: parseExpr threw
IndexNodes(doc, i, acc) ==
  IF i > Len(doc.props) THEN [ok |-> TRUE, nodes |-> acc]
  ELSE LET pr == doc.props[i] IN
       IF pr.v.kind \in {"num", "undef"} THEN IndexNodes(doc, i + 1, acc)
       ELSE IF pr.v.kind = "query"
       THEN IndexNodes(doc, i + 1, Append(acc, MkQueryNode(pr.k, pr.v, doc.ctx)))
       ELSE LET r == parseExpr(pr.v.src) IN
            IF ~r.ok THEN [ok |-> FALSE, nodes |-> <<>>]
            ELSE IndexNodes(doc, i + 1, Append(acc, MkNode(pr.k, pr.v, doc.ctx, r.ast)))

indexComputations(doc) ==
  LET ix == IndexNodes(doc, 1, <<>>) IN
  [ok |-> ix.ok, subject |-> expandIri(doc.id, doc.ctx), env |-> SeedEnv(doc),
   nodes |-> ix.nodes, quads |-> seedQuadsFromDoc(doc)]

(***************************************************************************)
(* Scheduler (dag/index.ts: buildDag, topoSort)                            *)
(***************************************************************************)
RECURSIVE Dedup(_)
\* insertion order of a Map's keys or of a Set: first occurrences
Dedup(seq) ==
  IF seq = <<>> THEN <<>>
  ELSE LET r == Dedup(SubSeq(seq, 1, Len(seq) - 1))
           x == seq[Len(seq)] IN
       IF x \in Range(r) THEN r ELSE Append(r, x)

RECURSIVE Filter(_, _)
\* the elements of seq that lie in the set keep, in order
Filter(seq, keep) ==
  IF seq = <<>> THEN <<>>
  ELSE IF seq[1] \in keep THEN <<seq[1]>> \o Filter(Tail(seq), keep)
  ELSE Filter(Tail(seq), keep)

DependsOn(a, b) == a.id # b.id /\ a.reads \cap Range(b.writes) # {}

\* dag = [ids, node, edges]: ids in Map insertion order, node[id] the last
\* node set under id, edges[id] the Set of dependents in insertion order
buildDag(nodes) ==
  LET ids == Dedup([i \in 1..Len(nodes) |-> nodes[i].id])
      idx == 1..Len(nodes) IN
  [ids |-> ids,
   node |-> [id \in Range(ids) |-> nodes[CHOOSE i \in idx :
               nodes[i].id = id /\ \A j \in idx : nodes[j].id = id => j <= i]],
   edges |-> [id \in Range(ids) |->
               Dedup(Filter([i \in idx |-> nodes[i].id],
                            {nodes[i].id : i \in {a \in idx : \E b \in idx :
                               nodes[b].id = id /\ DependsOn(nodes[a], nodes[b])}}))]]

RECURSIVE Drain(_, _, _, _)
\* lines 57-62: walk the out-edges of the layer's nodes, decrementing
\* in-degrees and queueing the nodes that reach zero
Drain(targets, i, inDegree, q) ==
  IF i > Len(targets) THEN [inDegree |-> inDegree, q |-> q]
  ELSE LET v == targets[i]
           d == inDegree[v] - 1 IN
       Drain(targets, i + 1, [inDegree EXCEPT ![v] = d],
             IF d = 0 THEN Append(q, v) ELSE q)

RECURSIVE Flatten(_)
Flatten(seqs) == IF seqs = <<>> THEN <<>> ELSE seqs[1] \o Flatten(Tail(seqs))

RECURSIVE KahnLoop(_, _, _, _, _)
KahnLoop(dag, q, inDegree, layers, visited) ==
  IF q = <<>> THEN [layers |-> layers, visited |-> visited]
  ELSE LET targets == Flatten([i \in 1..Len(q) |-> dag.edges[q[i]]])
           d == Drain(targets, 1, inDegree, <<>>) IN
       KahnLoop(dag, d.q, d.inDegree,
                Append(layers, [nodes |-> [i \in 1..Len(q) |-> dag.node[q[i]]],
                                fixpoint |-> FALSE]),
                visited \cup Range(q))

topoSort(dag) ==
  LET inDegree == [id \in Range(dag.ids) |->
                     Cardinality({src \in Range(dag.ids) : id \in Range(dag.edges[src])})]
      q == Filter(dag.ids, {id \in Range(dag.ids) : inDegree[id] = 0})
      k == KahnLoop(dag, q, inDegree, <<>>, {})
      remaining == Filter(dag.ids, Range(dag.ids) \ k.visited) IN
  IF remaining # <<>>
  THEN Append(k.layers, [nodes |-> [i \in 1..Len(remaining) |-> dag.node[remaining[i]]],
                         fixpoint |-> TRUE])
  ELSE k.layers

(***************************************************************************)
(* Layer evaluation (evaluator.ts: evalLayer, deepEqual, serializeValue)   *)
(***************************************************************************)
\* a loop bound of one more iteration
MaxFixpointIterEleven == 10 + 1
MaxFixpointIter == 10

\* JSON.stringify(v) as deepEqual uses it: a Decimal prints as a JSON
\* string (toJSON), NaN as null, undefined and functions as undefined
Json(v) ==
  CASE v.t \in {"undef", "fn"} -> [j |-> "undefined", s |-> <<>>]
    [] v.t \in {"null", "nan"} -> [j |-> "null", s |-> <<>>]
    [] v.t = "num" -> [j |-> "number", s |-> Digits(v.n)]
    [] v.t = "bool" -> [j |-> "boolean", s |-> ToStr(v)]
    [] v.t = "obj" -> [j |-> "object", s |-> v.s]
    [] OTHER -> [j |-> "string", s |-> ToStr(v)]

deepEqual(a, b) == Json(a) = Json(b)

\* some = FALSE stands for the result undefined
serializeValue(v) ==
  IF v.t \in {"dec", "decnan", "num", "bool", "str"}
  THEN [some |-> TRUE, o |-> ToStr(v)]
  ELSE [some |-> FALSE, o |-> <<>>]

Lookup(state, nm) == IF nm \in DOMAIN state THEN state[nm] ELSE Undef
Store(state, nm, v) == [x \in DOMAIN state \cup {nm} |-> IF x = nm THEN v ELSE state[x]]

Quad(s, p, o) == [s |-> s, p |-> p, o |-> o]
Diag(code, path) == [code |-> code, path |-> path]

\* the scope handed to evalExpr is the state map; identifiers are plain keys
ScopeOf(state) == [nm \in {k.loc : k \in {x \in DOMAIN state : x.ns = "key"}} |-> state[Key(nm)]]

\* the @expr branch with a catch that records nothing
EvalExprNodeSilent(n, st, subject, env) ==
  LET r == evalExpr(n.exprAst, ScopeOf(st.state), env)
      stateKey == Key(n.plainKey) IN
  IF ~r.ok THEN [st EXCEPT !.changed = FALSE]
  ELSE IF deepEqual(r.v, Lookup(st.state, stateKey)) THEN [st EXCEPT !.changed = FALSE]
  ELSE LET obj == serializeValue(r.v) IN
       [st EXCEPT !.state = Store(Store(@, Key(n.plainKey), r.v), n.writes[1], r.v),
                  !.quads = IF obj.some THEN Append(@, Quad(subject, n.id, obj.o)) ELSE @,
                  !.changed = TRUE]
\* lines 61-79
EvalExprNode(n, st, subject, env) ==
  LET r == evalExpr(n.exprAst, ScopeOf(st.state), env)
      stateKey == Key(n.plainKey) IN
  IF ~r.ok THEN [st EXCEPT !.diags = Append(@, Diag("LDC_EXPR_ERR", n.id)), !.changed = FALSE]
  ELSE IF deepEqual(r.v, Lookup(st.state, stateKey)) THEN [st EXCEPT !.changed = FALSE]
  ELSE LET obj == serializeValue(r.v) IN
       [st EXCEPT !.state = Store(Store(@, Key(n.plainKey), r.v), n.writes[1], r.v),
                  !.quads = IF obj.some THEN Append(@, Quad(subject, n.id, obj.o)) ELSE @,
                  !.changed = TRUE]

\* the @constraint branch storing its value under the plain key
EvalConstraintNodeStoring(n, st, subject, env) ==
  LET r == evalExpr(n.exprAst, ScopeOf(st.state), env) IN
  IF ~r.ok \/ ~Truthy(r.v)
  THEN [st EXCEPT !.diags = Append(@, Diag("LDC_CONSTRAINT_FAILED", n.id)),
                  !.state = IF r.ok THEN Store(@, Key(n.plainKey), r.v) ELSE @,
                  !.changed = FALSE]
  ELSE [st EXCEPT !.state = Store(@, Key(n.plainKey), r.v), !.changed = FALSE]
\* lines 80-87
EvalConstraintNode(n, st, subject, env) ==
  LET r == evalExpr(n.exprAst, ScopeOf(st.state), env) IN
  IF ~r.ok \/ ~Truthy(r.v)
  THEN [st EXCEPT !.diags = Append(@, Diag("LDC_CONSTRAINT_FAILED", n.id)), !.changed = FALSE]
  ELSE [st EXCEPT !.changed = FALSE]

\* lines 88-100
EvalViewNode(n, st, subject, env) ==
  LET r == evalExpr(n.exprAst, ScopeOf(st.state), env) IN
  IF ~r.ok THEN [st EXCEPT !.diags = Append(@, Diag("LDC_EXPR_ERR", n.id)), !.changed = FALSE]
  ELSE LET obj == serializeValue(r.v) IN
       [st EXCEPT !.state = Store(@, Key(n.plainKey), r.v),
                  !.quads = IF obj.some THEN Append(@, Quad(subject, n.writes[1], obj.o)) ELSE @,
                  !.changed = TRUE]

\* runQuery (query/index.ts lines 46-162) for the one-pattern query: a row
\* [v |-> o] for every quad with the predicate, in store order
runQuery(quads, q) ==
  LET hits == SelectSeq(quads, LAMBDA qd : qd.p = q.p)
  IN [i \in 1..Len(hits) |-> [v |-> hits[i].o]]

\* lines 101-122
EvalQueryNode(n, st, subject, env) ==
  LET rows == runQuery(st.quads, n.queryAst) IN
  IF rows = <<>> THEN [st EXCEPT !.changed = FALSE]
  ELSE [st EXCEPT !.quads = Append(@, Quad(subject, n.writes[1], rows[1].v)),
                  !.changed = TRUE]

\* one turn of the loop of evalLayer; st.changed reports this node alone
EvalNode(n, st, subject, env) ==
  CASE n.kind = "expr" -> EvalExprNode(n, st, subject, env)
    [] n.kind = "constraint" -> EvalConstraintNode(n, st, subject, env)
    [] n.kind = "query" -> EvalQueryNode(n, st, subject, env)
    [] OTHER -> EvalViewNode(n, st, subject, env)

RECURSIVE evalLayerFrom(_, _, _, _, _, _)
evalLayerFrom(nodes, i, st, changed, subject, env) ==
  IF i > Len(nodes) THEN [st EXCEPT !.changed = changed]
  ELSE LET s1 == EvalNode(nodes[i], st, subject, env) IN
       evalLayerFrom(nodes, i + 1, s1, changed \/ s1.changed, subject, env)

\* evalLayer: the resulting stores, with changed the value it returns
evalLayer(nodes, st, subject, env) == evalLayerFrom(nodes, 1, st, FALSE, subject, env)

RECURSIVE fixpointLoop(_, _, _, _, _)
\* lines 31-38
fixpointLoop(nodes, iter, st, subject, env) ==
  IF iter >= MaxFixpointIter THEN st
  ELSE LET s1 == evalLayer(nodes, st, subject, env) IN
       IF ~s1.changed THEN s1 ELSE fixpointLoop(nodes, iter + 1, s1, subject, env)

RECURSIVE evalLayers(_, _, _, _, _)
\* lines 29-42
evalLayers(layers, i, st, subject, env) ==
  IF i > Len(layers) THEN st
  ELSE evalLayers(layers, i + 1,
                  IF layers[i].fixpoint
                  THEN fixpointLoop(layers[i].nodes, 0, st, subject, env)
                  ELSE evalLayer(layers[i].nodes, st, subject, env),
                  subject, env)

\* evalDocument run to completion; ok = FALSE: the promise rejects
evalDocument(doc, env) ==
  LET ix == indexComputations(doc) IN
  IF ~ix.ok THEN [ok |-> FALSE, quads |-> <<>>, diags |-> <<>>, state |-> <<>>]
  ELSE LET st == evalLayers(topoSort(buildDag(ix.nodes)), 1,
                            [state |-> ix.env, quads |-> ix.quads, diags |-> <<>>,
                             changed |-> FALSE], ix.subject, env) IN
       [ok |-> TRUE, quads |-> st.quads, diags |-> st.diags, state |-> st.state]

(***************************************************************************)
(* The evaluate handler (policy.ts: enforceCaps, evaluate; services:       *)
(* runtime.evaluate, signer.sign; canonical.ts)                            *)
(***************************************************************************)
DefaultTimeoutMs == 5000

\* loadOrgPolicy outside production
OrgPolicy == <<[cap |-> "network", values |-> <<"https://api.example.com">>]>>

PolicyValues(cap) ==
  IF \E i \in 1..Len(OrgPolicy) : OrgPolicy[i].cap = cap
  THEN Range(OrgPolicy[CHOOSE i \in 1..Len(OrgPolicy) : OrgPolicy[i].cap = cap].values)
  ELSE {}

RECURSIVE CapEntries(_, _, _)
\* the entries [cap, values] of requested whose values pass or fail the policy
CapEntries(requested, i, wantAllowed) ==
  IF i > Len(requested) THEN <<>>
  ELSE LET e == requested[i]
           vals == Filter(e.values, IF wantAllowed THEN PolicyValues(e.cap)
                                    ELSE Range(e.values) \ PolicyValues(e.cap)) IN
       (IF vals # <<>> THEN <<[cap |-> e.cap, values |-> vals]>> ELSE <<>>)
         \o CapEntries(requested, i + 1, wantAllowed)

\* `policy[cap] ?? []' on an object literal also finds the members of
\* Object.prototype: for such a cap policyValues is not an array and the
\* filter callback of line 73 raises a TypeError on the first requested value
InheritedKeys == {"constructor"}

\* ok = FALSE: enforceCaps threw
enforceCaps(requested) ==
  IF \E i \in 1..Len(requested) : requested[i].cap \in InheritedKeys /\ requested[i].values # <<>>
  THEN [ok |-> FALSE, allowed |-> <<>>, denied |-> <<>>]
  ELSE [ok |-> TRUE, allowed |-> CapEntries(requested, 1, TRUE),
        denied |-> CapEntries(requested, 1, FALSE)]

\* EvalInput.parse: doc is a record, auth is present, timeoutMs is a positive
\* integer of at most 5000
MaxTimeoutMs == 5000
\* a validation that accepts everything
SchemaOkLax(input) == TRUE
SchemaOk(input) ==
  /\ input.docKind = "object"
  /\ input.auth.present
  /\ input.options.timeoutMs \in 1..MaxTimeoutMs

\* policy.ts lines 143-151
capDeniedDiagnostics(input) ==
  IF enforceCaps(input.options.caps).denied # <<>>
  THEN <<[code |-> "cap_denied", severity |-> "warning", path |-> <<>>]>>
  ELSE <<>>

\* canonicalize sorts the keys of every object and keeps the order of every
\* array: an object becomes the set of its entries, an array stays a sequence
CanonCaps(caps) == {<<caps[i].cap, caps[i].values>> : i \in 1..Len(caps)}
CanonDoc(doc) ==
  [ctx |-> {<<doc.ctx[i].pfx, doc.ctx[i].base>> : i \in 1..Len(doc.ctx)},
   id |-> doc.id,
   props |-> {<<doc.props[i].k, doc.props[i].v>> : i \in 1..Len(doc.props)}]

\* services runtime.evaluate after its abort check, lines 51-85
runtimeResult(r) ==
  IF r.ok
  THEN [value |-> [null |-> FALSE, quads |-> r.quads],
        diagnostics |-> [i \in 1..Len(r.diags) |->
                           [code |-> r.diags[i].code, severity |-> "error",
                            path |-> <<r.diags[i].path>>]],
        prov |-> [source |-> "@ldc/runtime", error |-> FALSE, graph |-> r.quads]]
  ELSE [value |-> [null |-> TRUE, quads |-> <<>>],
        diagnostics |-> <<[code |-> "RUNTIME_ERROR", severity |-> "error", path |-> <<>>]>>,
        prov |-> [source |-> "@ldc/runtime", error |-> TRUE, graph |-> <<>>]]

\* {...options, caps} less timeoutMs
createSignablePayload(doc, options, caps, value, prov) ==
  [doc |-> CanonDoc(doc), value |-> value,
   options |-> [caps |-> CanonCaps(caps), asOf |-> options.asOf],
   prov |-> prov]

\* HMAC-SHA256 under the fixed secret is taken to be collision free: the
\* signature is identified with the canonical payload it was computed from
sign(payload) == [v |-> 1, alg |-> "hmac-sha256", key |-> "kid_2025_10", mac |-> payload]
NoSig == [v |-> 0, alg |-> "", key |-> "",
          mac |-> [doc |-> [ctx |-> {}, id |-> "", props |-> {}],
                   value |-> [null |-> TRUE, quads |-> <<>>],
                   options |-> [caps |-> {}, asOf |-> 0],
                   prov |-> [source |-> "", error |-> FALSE, graph |-> <<>>]]]

\* policy.ts lines 171-207
successOutput(input, res, durationMs) ==
  [value |-> res.value, diagnostics |-> capDeniedDiagnostics(input) \o res.diagnostics,
   hasSig |-> TRUE,
   sig |-> sign(createSignablePayload(input.doc, input.options,
                                      enforceCaps(input.options.caps).allowed,
                                      res.value, res.prov)),
   durationMs |-> durationMs]

\* policy.ts lines 213-224
timeoutOutput(input, durationMs) ==
  [value |-> [null |-> TRUE, quads |-> <<>>],
   diagnostics |-> capDeniedDiagnostics(input)
                     \o <<[code |-> "timeout", severity |-> "error", path |-> <<>>]>>,
   hasSig |-> FALSE, sig |-> NoSig, durationMs |-> durationMs]

\* policy.ts lines 242-254: the outer catch
schemaErrorOutput(durationMs) ==
  [value |-> [null |-> TRUE, quads |-> <<>>],
   diagnostics |-> <<[code |-> "schema_error", severity |-> "error", path |-> <<>>]>>,
   hasSig |-> FALSE, sig |-> NoSig, durationMs |-> durationMs]

\* the statements of lines 135-139 complete without an exception
EntersRuntime(input) == SchemaOk(input) /\ enforceCaps(input.options.caps).ok

\* one whole call of evaluate at wall-clock time now
evaluate(input, aborted, now, durationMs) ==
  IF ~EntersRuntime(input) THEN schemaErrorOutput(durationMs)
  ELSE IF aborted THEN timeoutOutput(input, durationMs)
  ELSE successOutput(input, runtimeResult(evalDocument(input.doc, [now |-> now])), durationMs)

(***************************************************************************)
(* Inputs                                                                  *)
(***************************************************************************)
MaxProps == 2
MaxClock == 1

SrcBPlus1 == <<W("b"), W("+"), N(1)>>
SrcAPlus1 == <<W("a"), W("+"), N(1)>>
SrcAMinus1 == <<W("a"), W("-"), N(1)>>
SrcSeedB == <<W("("), W("b"), W("??"), N(0), W(")"), W("+"), N(1)>>
SrcDivZero == <<N(1), W("/"), N(0)>>
SrcCallA == <<W("a"), W("("), W(")")>>
SrcTrailing == <<W("a"), N(1)>>
SrcAGe0 == <<W("a"), W(">="), N(0)>>
SrcXPlus1 == <<W("x"), W("+"), N(1)>>
SrcNow == <<W("$now"), W("("), W(")")>>
SrcOne == <<N(1)>>
SrcTwo == <<N(2)>>
SrcFalseAndDivZero == <<W("false"), W("and"), N(1), W("/"), N(0)>>
SrcTrueOrDivZero == <<W("true"), W("or"), N(1), W("/"), N(0)>>
SrcFalseAmpDivZero == <<W("false"), W("&&"), N(1), W("/"), N(0)>>
SrcTrueBarDivZero == <<W("true"), W("||"), N(1), W("/"), N(0)>>
SrcAX == <<W("a"), W("."), W("x")>>

GenValues ==
  {InertNum(1),
   Directive("expr", SrcBPlus1), Directive("expr", SrcAPlus1), Directive("expr", SrcSeedB),
   Directive("expr", SrcDivZero), Directive("expr", SrcCallA), Directive("expr", SrcTrailing),
   Directive("constraint", SrcAGe0), Directive("constraint", SrcDivZero),
   Directive("view", SrcBPlus1)}
GenKeys == {"a", "b", "c"}

CtxEx == <<[pfx |-> "ex", base |-> "https://ex"]>>
CtxExAlt == <<[pfx |-> "ex", base |-> "https://ex"], [pfx |-> "alt", base |-> "https://alt"]>>
CtxAltEx == <<[pfx |-> "alt", base |-> "https://alt"], [pfx |-> "ex", base |-> "https://ex"]>>

Prop(k, v) == [k |-> k, v |-> v]
Doc(ctxMap, props) == [ctx |-> ctxMap, id |-> "ex:doc", props |-> props]

\* property lists of length 1..MaxProps with distinct keys
PropLists ==
  UNION {{ps \in [1..n -> [k : GenKeys, v : GenValues]] :
            \A i, j \in 1..n : i # j => ps[i].k # ps[j].k} : n \in 1..MaxProps}

\* the fixpoint scenario with a property outside the cycle and a constraint
\* that reads the cycle, the failing-constraint scenario, and a cycle that
\* never settles
DocCyclePair ==
  Doc(CtxEx, <<Prop("x", InertNum(1)), Prop("a", Directive("expr", SrcBPlus1)),
               Prop("b", Directive("expr", SrcAMinus1)), Prop("c", Directive("expr", SrcXPlus1))>>)
DocCycleConstraint ==
  Doc(CtxEx, <<Prop("a", Directive("expr", SrcBPlus1)), Prop("b", Directive("expr", SrcAMinus1)),
               Prop("c", Directive("constraint", SrcAGe0))>>)
DocConstraintFail ==
  Doc(CtxEx, <<Prop("a", InertNum(-1)), Prop("c", Directive("constraint", SrcAGe0))>>)
DocDiverge ==
  Doc(CtxEx, <<Prop("a", Directive("expr", SrcSeedB)), Prop("b", Directive("expr", SrcAPlus1)),
               Prop("c", Directive("expr", SrcOne))>>)
\* the guarded divisions: `false and 1/0', `true or 1/0' and their symbol forms
ShortCircuitSrcs ==
  {SrcFalseAndDivZero, SrcTrueOrDivZero, SrcFalseAmpDivZero, SrcTrueBarDivZero}
DocShortCircuit(src) == Doc(CtxEx, <<Prop("a", Directive("expr", src))>>)
\* an expression that reads a property of the constraint object a
DocMember ==
  Doc(CtxEx, <<Prop("a", Directive("constraint", SrcOne)), Prop("b", Directive("expr", SrcAX))>>)
ScenarioDocs ==
  {DocCyclePair, DocCycleConstraint, DocConstraintFail, DocDiverge, DocMember}
    \cup {DocShortCircuit(src) : src \in ShortCircuitSrcs}

Docs == {Doc(CtxEx, ps) : ps \in PropLists} \cup ScenarioDocs

DocOne == Doc(CtxEx, <<Prop("a", Directive("expr", SrcOne))>>)

NoOptions == [timeoutMs |-> DefaultTimeoutMs, asOf |-> 0, caps |-> <<>>]
Auth == [present |-> TRUE, orgId |-> "org"]
NoAuth == [present |-> FALSE, orgId |-> ""]
Input(doc, options) == [docKind |-> "object", doc |-> doc, options |-> options, auth |-> Auth]

(***************************************************************************)
(* One call of evaluate, step by step                                      *)
(*                                                                         *)
(* pc is the handler's position; li, ni, iter and changed are the loop     *)
(* variables of evalDocument and evalLayer; st holds the state map, the    *)
(* quad store and the diagnostics.  raised, evals and passes record        *)
(* history: when the abort signal was raised, how often each node was      *)
(* evaluated, and per layer the number of passes started and whether the   *)
(* last finished pass changed nothing.  cached holds the property keys of   *)
(* the document's objects on which getPropValue defined __ldc_cache.       *)
(***************************************************************************)
VARIABLES input, pc, signal, raised, subject, layers, li, ni, iter, changed, st,
          evals, passes, out, clock, calls, started, reqId, cached,
          orgBuckets, ipWindows, nowMs, lim, ipAllowed,
          store, storeHist, dataFile, dataOut, qty, canon, pat

\* the module state of the rate limiter (schema.ts lines 86-87), the time
\* Date.now() shows to it, and the history of its calls; ipAllowed holds,
\* per address, the times of the allowed calls of checkIpWindow made on
\* their own
limVars == <<orgBuckets, ipWindows, nowMs, lim, ipAllowed>>
handlerVars == <<input, pc, signal, raised, subject, layers, li, ni, iter, changed, st,
                 evals, passes, out, clock, calls, started, reqId, cached>>
\* a quad store and the last operation on it
storeVars == <<store, storeHist>>
\* a data file given to eval-data.ts and what evalDataFile made of it
dataVars == <<dataFile, dataOut>>
\* the operands and the result of the last quantity operation, of the last
\* canonicalize call and of the last pattern match
pureVars == <<qty, canon, pat>>
vars == <<handlerVars, limVars, storeVars, dataVars, pureVars>>

\* ---------------------------------------------------------------------
\* Rate limiter (schema.ts lines 86-172).  Times are in milliseconds and
\* token counts in thousandths of a token, so that the refill
\* elapsed / 1000 * rate is the integer elapsedMs * rate.
\* ---------------------------------------------------------------------

MilliTokens == 1000

\* the defaults of takeOrgToken and checkIpWindow
DefaultRate == 5
DefaultBurst == 10
DefaultIpLimit == 100
DefaultWindowMs == 60000

Orgs == {"org-a", "org-b"}
Ips == {"192.168.1.1"}

MinOf(a, b) == IF a < b THEN a ELSE b

\* Map.prototype.set
MapSet(map, k, v) == [x \in DOMAIN map \cup {k} |-> IF x = k THEN v ELSE map[x]]

EmptyMap == [x \in {} |-> 0]

\* what takeOrgToken sees in the bucket once it has refilled it
refilled(buckets, orgId, rate, burst, now) ==
  LET bucket == IF orgId \in DOMAIN buckets THEN buckets[orgId]
                ELSE [tokens |-> burst * MilliTokens, updated |-> now]
      refill == (now - bucket.updated) * rate
  IN MinOf(burst * MilliTokens, bucket.tokens + refill)

takeOrgTokenFree(buckets, orgId, rate, burst, now) ==
  LET tokens == refilled(buckets, orgId, rate, burst, now)
  IN [allowed |-> TRUE,
      buckets |-> MapSet(buckets, orgId,
                         [tokens |-> tokens - MilliTokens, updated |-> now])]

takeOrgToken(buckets, orgId, rate, burst, now) ==
  LET tokens == refilled(buckets, orgId, rate, burst, now)
  IN IF tokens < MilliTokens
     THEN [allowed |-> FALSE,
           buckets |-> MapSet(buckets, orgId, [tokens |-> tokens, updated |-> now])]
     ELSE [allowed |-> TRUE,
           buckets |-> MapSet(buckets, orgId,
                              [tokens |-> tokens - MilliTokens, updated |-> now])]

\* checkIpWindow with the test `>' for `>=' at line 142
checkIpWindowOver(windows, ip, limit, windowMs, now) ==
  LET old == IF ip \in DOMAIN windows THEN windows[ip] ELSE <<>>
      requests == SelectSeq(old, LAMBDA ts : now - ts < windowMs)
  IN IF Len(requests) > limit
     THEN [allowed |-> FALSE, windows |-> MapSet(windows, ip, requests)]
     ELSE [allowed |-> TRUE, windows |-> MapSet(windows, ip, Append(requests, now))]

checkIpWindow(windows, ip, limit, windowMs, now) ==
  LET old == IF ip \in DOMAIN windows THEN windows[ip] ELSE <<>>
      requests == SelectSeq(old, LAMBDA ts : now - ts < windowMs)
  IN IF Len(requests) >= limit
     THEN [allowed |-> FALSE, windows |-> MapSet(windows, ip, requests)]
     ELSE [allowed |-> TRUE, windows |-> MapSet(windows, ip, Append(requests, now))]

checkRateLimit(buckets, windows, orgId, ip, now) ==
  LET t == takeOrgToken(buckets, orgId, DefaultRate, DefaultBurst, now)
      w == checkIpWindow(windows, ip, DefaultIpLimit, DefaultWindowMs, now)
  IN IF ~t.allowed
     THEN [allowed |-> FALSE, reason |-> "org_rate_limit",
           buckets |-> t.buckets, windows |-> windows]
     ELSE IF ~w.allowed
     THEN [allowed |-> FALSE, reason |-> "ip_rate_limit",
           buckets |-> t.buckets, windows |-> w.windows]
     ELSE [allowed |-> TRUE, reason |-> "",
           buckets |-> t.buckets, windows |-> w.windows]

NoLimiterCall == [org |-> "", ip |-> "", allowed |-> FALSE, reason |-> "", avail |-> 0]

\* the limiter after clearRateLimits (schema.ts lines 216-219): no bucket,
\* no window, no call made
LimInit ==
  /\ orgBuckets = EmptyMap
  /\ ipWindows = EmptyMap
  /\ nowMs = 0
  /\ lim = [fresh |-> TRUE, made |-> [o \in Orgs |-> 0],
            allowedN |-> [o \in Orgs |-> 0], last |-> NoLimiterCall]
  /\ ipAllowed = EmptyMap

\* ---------------------------------------------------------------------
\* Quad stores: InMemoryQuadStore (jsonld/index.ts lines 3-16) and the
\* SimpleQuadStore of part_007 lines 25-48 and eval-data.ts lines 21-49.
\* An optional string is <<>> (undefined) or <<s>>.
\* ---------------------------------------------------------------------

None == <<>>
Some(s) == <<s>>

StoreQuad(s, p, o, g) == [s |-> s, p |-> p, o |-> o, g |-> g]

NewStore(kind) == [kind |-> kind, quads |-> <<>>]

\* add(q): this.qs.push(q)
addQuad(qs, q) == [qs EXCEPT !.quads = Append(@, q)]

\* addAll(qs): this.qs.push(...qs)
addAll(qs, more) == [qs EXCEPT !.quads = @ \o more]

\* the test that makes an argument of match a wildcard: `=== undefined` in
\* InMemoryQuadStore, `!s` in SimpleQuadStore (undefined and '' are falsy)
Wildcard(kind, a) ==
  IF kind = "InMemoryQuadStore" THEN a = None
  ELSE a = None \/ a = Some("")

match(qs, s, p, o, g) ==
  SelectSeq(qs.quads, LAMBDA q :
    /\ Wildcard(qs.kind, s) \/ Some(q.s) = s
    /\ Wildcard(qs.kind, p) \/ Some(q.p) = p
    /\ Wildcard(qs.kind, o) \/ Some(q.o) = o
    /\ Wildcard(qs.kind, g) \/ q.g = g)

size(qs) == Len(qs.quads)

NoStoreOp == [op |-> "none", before |-> <<>>, quads |-> <<>>,
              args |-> <<None, None, None, None>>, result |-> <<>>]

StoreInit ==
  /\ store = NewStore("InMemoryQuadStore")
  /\ storeHist = NoStoreOp

\* ---------------------------------------------------------------------
\* Data files (eval-data.ts): @ref and @rollup against related documents.
\* A JSON value of a related document is tagged: number, string, array,
\* object (a function from its field names) or undefined.
\* ---------------------------------------------------------------------

JV(t, n, s, a, f) == [t |-> t, n |-> n, s |-> s, a |-> a, f |-> f]
JUndef == JV("undef", 0, "", <<>>, <<>>)
JNum(n) == JV("num", n, "", <<>>, <<>>)
JStr(s) == JV("str", 0, s, <<>>, <<>>)
JArr(a) == JV("arr", 0, "", a, <<>>)
JObj(f) == JV("obj", 0, "", <<>>, f)

\* current?.[part]
GetField(j, name) == IF j.t = "obj" /\ name \in DOMAIN j.f THEN j.f[name] ELSE JUndef

\* relations[alias], undefined for an alias that was not loaded
Relation(relations, alias) ==
  IF alias \in DOMAIN relations THEN relations[alias] ELSE JUndef

\* a path segment `name' or `name[idx]'
Seg(name) == [name |-> name, idx |-> <<>>]
SegAt(name, i) == [name |-> name, idx |-> <<i>>]

RECURSIVE WalkPath(_, _, _)
\* lines 174-189
WalkPath(current, parts, i) ==
  IF i > Len(parts) THEN current
  ELSE LET part == parts[i]
           prop == GetField(current, part.name)
           next == IF part.idx = <<>> THEN prop
                   ELSE IF prop.t = "arr" /\ part.idx[1] + 1 <= Len(prop.a)
                        THEN prop.a[part.idx[1] + 1] ELSE JUndef
       IN IF next.t = "undef" THEN JUndef ELSE WalkPath(next, parts, i + 1)

\* ok = FALSE: throw new Error(`Relation "..." not found`)
resolvePath(path, relations) ==
  LET relatedDoc == Relation(relations, path[1].name) IN
  IF relatedDoc.t = "undef" THEN [ok |-> FALSE, v |-> JUndef]
  ELSE [ok |-> TRUE, v |-> WalkPath(relatedDoc, path, 2)]

\* a shorthand string is held as the pieces split(':') and split('.') cut
\* it into: path, the segments of the first piece; rest, the other pieces
Shorthand(path, rest) == [path |-> path, rest |-> rest]

NoLit == [str |-> "", num |-> <<>>]
LitStr(s) == [str |-> s, num |-> <<>>]
LitNum(n) == [str |-> "", num |-> <<n>>]
\* a filter string `prop op literal' as the regular expression of lines
\* 253-255 cuts it; NoFilter: no filter string
FilterOn(prop, op, val) == [prop |-> prop, op |-> op, val |-> val]
NoFilter == FilterOn("", "", NoLit)

Config(relation, property, select, aggregate, filter) ==
  [relation |-> relation, property |-> property, select |-> select,
   aggregate |-> aggregate, filter |-> filter]

\* ok = FALSE: throw new Error(`Invalid rollup shorthand`); the config
\* returned has no filter
parseRollupShorthand(shorthand) ==
  LET aggregate == IF Len(shorthand.rest) >= 1 THEN <<shorthand.rest[1]>> ELSE <<>>
      parts == shorthand.path
  IN IF Len(parts) = 2
     THEN [ok |-> TRUE, config |-> Config(parts[1], parts[2], <<>>, aggregate, NoFilter)]
     ELSE IF Len(parts) >= 3
     THEN [ok |-> TRUE,
           config |-> Config(parts[1], parts[2], SubSeq(parts, 3, Len(parts)),
                             aggregate, NoFilter)]
     ELSE [ok |-> FALSE, config |-> Config("", "", <<>>, <<>>, NoFilter)]

\* String(itemVal) and Number(itemVal) as the filter compares them
StringOf(j) ==
  CASE j.t = "num" -> LitNum(j.n)
    [] j.t = "str" -> LitStr(j.s)
    [] j.t = "undef" -> LitStr("undefined")
    [] OTHER -> LitStr("[object Object]")
NumberOf(j) == IF j.t = "num" THEN <<j.n>> ELSE <<>>

\* lines 251-275: the test applied to one item
FilterKeeps(filter, item) ==
  LET itemVal == GetField(item, filter.prop)
      a == NumberOf(itemVal)
      b == filter.val.num
      both == a # <<>> /\ b # <<>>
  IN CASE filter.op = "==" -> StringOf(itemVal) = filter.val
       [] filter.op = "!=" -> StringOf(itemVal) # filter.val
       [] filter.op = ">" -> both /\ a[1] > b[1]
       [] filter.op = "<" -> both /\ a[1] < b[1]
       [] filter.op = ">=" -> both /\ a[1] >= b[1]
       [] filter.op = "<=" -> both /\ a[1] <= b[1]
       [] OTHER -> TRUE

RECURSIVE SumOf(_)
\* vals.reduce((a, b) => a + (Number(b) || 0), 0)
SumOf(vals) ==
  IF vals = <<>> THEN 0
  ELSE SumOf(SubSeq(vals, 1, Len(vals) - 1))
         + (IF vals[Len(vals)].t = "num" THEN vals[Len(vals)].n ELSE 0)

\* the keys of the aggregators table, lines 132-146
AggregatorNames ==
  {"sum", "avg", "count", "min", "max", "first", "last", "concat", "unique", "all"}

\* the aggregates over whole numbers; avg, min, max, concat and unique are
\* in the table but in no file drawn
aggregators(name, vals) ==
  CASE name = "sum" -> JNum(SumOf(vals))
    [] name = "count" -> JNum(Len(vals))
    [] name = "first" -> IF vals = <<>> THEN JUndef ELSE vals[1]
    [] name = "last" -> IF vals = <<>> THEN JUndef ELSE vals[Len(vals)]
    [] name = "all" -> JArr(vals)
    [] OTHER -> JUndef

\* item[config.select]
Select(item, select) == IF Len(select) = 1 THEN GetField(item, select[1]) ELSE JUndef

\* the properties of a data file: a plain value or directive of the
\* evaluator, {"@ref": path}, {"@rollup": shorthand, "filter": sibling} or
\* {"@rollup": config}
DataProp(kind, plain, path, short, config, sibling) ==
  [kind |-> kind, plain |-> plain, path |-> path, short |-> short,
   config |-> config, sibling |-> sibling]
NoConfig == Config("", "", <<>>, <<>>, NoFilter)
NoShorthand == Shorthand(<<>>, <<>>)
DPlain(v) == DataProp("plain", v, <<>>, NoShorthand, NoConfig, NoFilter)
DRef(path) == DataProp("ref", InertUndef, path, NoShorthand, NoConfig, NoFilter)
DRollup(short, sibling) == DataProp("rollup", InertUndef, <<>>, short, NoConfig, sibling)
DRollupObject(config) == DataProp("rollupObject", InertUndef, <<>>, NoShorthand, config, NoFilter)

\* lines 223-294: the body of the loop of processRollups for one @rollup
\* property; ok = FALSE: one of its four throw statements
rollupOne(value, relations) ==
  LET parsed == IF value.kind = "rollup" THEN parseRollupShorthand(value.short)
                ELSE [ok |-> TRUE, config |-> value.config]
      config == parsed.config
      relatedDoc == Relation(relations, config.relation)
      items == GetField(relatedDoc, config.property)
      kept == IF config.filter # NoFilter
              THEN SelectSeq(items.a, LAMBDA item : FilterKeeps(config.filter, item))
              ELSE items.a
      values == IF config.select # <<>>
                THEN [i \in 1..Len(kept) |-> Select(kept[i], config.select)]
                ELSE kept
  IN IF ~parsed.ok THEN [ok |-> FALSE, v |-> JUndef]
     ELSE IF relatedDoc.t = "undef" THEN [ok |-> FALSE, v |-> JUndef]
     ELSE IF items.t # "arr" THEN [ok |-> FALSE, v |-> JUndef]
     ELSE IF config.aggregate = <<>> \/ config.aggregate[1] \notin AggregatorNames
     THEN [ok |-> FALSE, v |-> JUndef]
     ELSE [ok |-> TRUE, v |-> aggregators(config.aggregate[1], values)]

RECURSIVE processFrom(_, _, _, _, _)
\* the loops of processRefs (lines 201-206) and processRollups (lines
\* 218-295) from property i on; ok = FALSE: an exception left the loop
processFrom(kinds, props, i, relations, computed) ==
  IF i > Len(props) THEN [ok |-> TRUE, computed |-> computed]
  ELSE IF props[i].v.kind \notin kinds
  THEN processFrom(kinds, props, i + 1, relations, computed)
  ELSE LET r == IF props[i].v.kind = "ref" THEN resolvePath(props[i].v.path, relations)
                ELSE rollupOne(props[i].v, relations)
       IN IF ~r.ok THEN [ok |-> FALSE, computed |-> computed]
          ELSE processFrom(kinds, props, i + 1, relations,
                           MapSet(computed, props[i].k, r.v))

processRefs(doc, relations) == processFrom({"ref"}, doc.props, 1, relations, EmptyMap)

processRollups(doc, relations) ==
  processFrom({"rollup", "rollupObject"}, doc.props, 1, relations, EmptyMap)

\* the value a computed property has in processedDoc, as the evaluator's
\* document holds it (the files drawn compute numbers or undefined)
ToInert(j) == IF j.t = "num" THEN InertNum(j.n) ELSE InertUndef

NoDataFile == <<>>
NoDataOut == [done |-> FALSE, threw |-> FALSE, output |-> <<>>, triples |-> <<>>,
              diagnostics |-> <<>>]

DataInit ==
  /\ dataFile = NoDataFile
  /\ dataOut = NoDataOut

\* ---------------------------------------------------------------------
\* Quantities (interp.ts lines 528-609, part_004 lines 329-420, the stub
\* registry of eval-data.ts lines 52-96).  A magnitude is an exact ratio
\* [num, den]; the literals drawn have magnitudes for which the code's
\* floating-point and Decimal arithmetic of sums is exact as well.  A unit
\* name is its text cut at the operators: <<"km", "/", "h">> is "km/h".
RECURSIVE Gcd(_, _)
Gcd(a, b) == IF b = 0 THEN a ELSE Gcd(b, a % b)
AbsOf(n) == IF n < 0 THEN -n ELSE n
Rat(num, den) ==
  LET g == Gcd(AbsOf(num), AbsOf(den))
      sgn == IF den < 0 THEN -1 ELSE 1
  IN [num |-> sgn * (num \div g), den |-> sgn * (den \div g)]
RatAdd(x, y) == Rat(x.num * y.den + y.num * x.den, x.den * y.den)
RatMul(x, y) == Rat(x.num * y.num, x.den * y.den)
RatInv(x) == Rat(x.den, x.num)
RatNeg(x) == Rat(-x.num, x.den)

\* a dim vector is a function from its own keys to exponents
DimNames == {"currency", "length", "time"}
NoDim == [k \in {} |-> 0]
DimOf(k, e) == [x \in {k} |-> e]
DimGet(d, k) == IF k \in DOMAIN d THEN d[k] ELSE 0

\* Unit: factor is the linear map toBase (every toBase of the registry is
\* x * factor); fromBase is its inverse
Unit(name, dim, factor) == [name |-> name, dim |-> dim, factor |-> factor]
NoUnit == Unit(<<>>, NoDim, Rat(0, 1))
unitOne == Unit(<<"1">>, NoDim, Rat(1, 1))

\* stubUnits.getUnit, eval-data.ts lines 52-93
UnitNames == {"USD", "EUR", "m", "km", "s", "h"}
getUnit(uname) ==
  CASE uname = "USD" -> Unit(<<"USD">>, DimOf("currency", 1), Rat(1, 1))
    [] uname = "EUR" -> Unit(<<"EUR">>, DimOf("currency", 1), Rat(11, 10))
    [] uname = "m" -> Unit(<<"m">>, DimOf("length", 1), Rat(1, 1))
    [] uname = "km" -> Unit(<<"km">>, DimOf("length", 1), Rat(1000, 1))
    [] uname = "s" -> Unit(<<"s">>, DimOf("time", 1), Rat(1, 1))
    [] uname = "h" -> Unit(<<"h">>, DimOf("time", 1), Rat(3600, 1))
    [] OTHER -> NoUnit
\* stubUnits.listUnits, line 95
listUnits == <<"USD", "EUR", "m", "km", "s", "h">>

\* what the regex of part_004 line 347 finds in one part of a unit name:
\* the unit's name and the exponent, 1 when none is written
TermOf(part) ==
  CASE part = "m^2" -> [uname |-> "m", exp |-> 2]
    [] part = "s^-1" -> [uname |-> "s", exp |-> -1]
    [] OTHER -> [uname |-> part, exp |-> 1]

RECURSIVE CompoundTerms(_, _, _, _)
\* the loop of parseCompoundUnit, lines 352-366, from part i on; ok = FALSE
\* when a unit is not registered
CompoundTerms(parts, i, op, terms) ==
  IF i > Len(parts) THEN [ok |-> TRUE, terms |-> terms]
  ELSE IF parts[i] \in {"*", "/"} THEN CompoundTerms(parts, i + 1, parts[i], terms)
  ELSE LET t == TermOf(parts[i])
           u == getUnit(t.uname) IN
       IF u = NoUnit THEN [ok |-> FALSE, terms |-> <<>>]
       ELSE CompoundTerms(parts, i + 1, op,
              Append(terms, [unit |-> u, exp |-> IF op = "*" THEN t.exp ELSE -t.exp]))

RECURSIVE CompoundDim(_, _, _)
\* lines 367-372: dim[k] = (dim[k] ?? 0) + v * t.exp, nothing is deleted
CompoundDim(terms, i, dim) ==
  IF i > Len(terms) THEN dim
  ELSE LET t == terms[i]
           ks == DOMAIN dim \cup DOMAIN t.unit.dim IN
       CompoundDim(terms, i + 1,
         [k \in ks |-> IF k \in DOMAIN t.unit.dim
                        THEN DimGet(dim, k) + t.unit.dim[k] * t.exp
                        ELSE dim[k]])

RECURSIVE CompoundFactor(_, _, _)
\* toBase of lines 376-384: each term's toBase, or its inverse when the
\* exponent is negative, applied once whatever the exponent's size
CompoundFactor(terms, i, f) ==
  IF i > Len(terms) THEN f
  ELSE CompoundFactor(terms, i + 1,
         RatMul(f, IF terms[i].exp >= 0 THEN terms[i].unit.factor
                   ELSE RatInv(terms[i].unit.factor)))

\* lines 329-398
parseCompoundUnit(name) ==
  LET r == CompoundTerms(name, 1, "*", <<>>) IN
  IF ~r.ok THEN NoUnit
  ELSE Unit(name, CompoundDim(r.terms, 1, NoDim), CompoundFactor(r.terms, 1, Rat(1, 1)))

Quantity(n, unit) == [n |-> n, unit |-> unit]
NoQuantity == Quantity(Rat(0, 1), NoUnit)
\* the quantity literal "n name" as the document holds it
QtyLiteral(n, name) == [n |-> n, name |-> name]

\* lines 400-421: units.getUnit(uname) ?? parseCompoundUnit(uname, units)
parseQuantityLiteralLocal(lit) ==
  LET u == IF Len(lit.name) = 1 /\ lit.name[1] \in UnitNames
           THEN getUnit(lit.name[1]) ELSE parseCompoundUnit(lit.name) IN
  IF u = NoUnit THEN NoQuantity ELSE Quantity(Rat(lit.n, 1), u)

toBase(unit, x) == RatMul(x, unit.factor)

\* interp.ts lines 546-548
qtyScale(a, k) == Quantity(RatMul(a.n, Rat(k, 1)), a.unit)

\* lines 550-555
dimAdd(a, b) ==
  LET merged == [k \in DOMAIN a \cup DOMAIN b |-> DimGet(a, k) + DimGet(b, k)]
  IN [k \in {x \in DOMAIN merged : merged[x] # 0} |-> merged[k]]

\* lines 602-609
sameDim(a, b) == DOMAIN a = DOMAIN b /\ \A k \in DOMAIN a : a[k] = b[k]

\* lines 611-613
combineName(a, b, op) == a \o <<op>> \o b

\* lines 557-571
qtyMul(a, b) ==
  Quantity(RatMul(toBase(a.unit, a.n), toBase(b.unit, b.n)),
           Unit(combineName(a.unit.name, b.unit.name, "*"),
                dimAdd(a.unit.dim, b.unit.dim), Rat(1, 1)))

\* lines 573-584 for e = -1, the exponent div uses
qtyPow(a, e) ==
  Quantity(RatInv(toBase(a.unit, a.n)),
           Unit(a.unit.name \o <<"^-1">>,
                [k \in DOMAIN a.unit.dim |-> a.unit.dim[k] * e], Rat(1, 1)))

QOk(q) == [ok |-> TRUE, q |-> q]
QThrow == [ok |-> FALSE, q |-> NoQuantity]

\* lines 586-600
qtyAdd(a, b) ==
  IF ~sameDim(a.unit.dim, b.unit.dim) THEN QThrow
  ELSE QOk(Quantity(RatAdd(toBase(a.unit, a.n), toBase(b.unit, b.n)),
                    Unit(a.unit.name, a.unit.dim, Rat(1, 1))))

\* the branch isQty(a) && isQty(b) of add, sub, mul and div, lines 483, 493,
\* 503 and 511
QtyOps == {"+", "-", "*", "/"}
qtyBinary(op, a, b) ==
  CASE op = "+" -> qtyAdd(a, b)
    [] op = "-" -> qtyAdd(a, qtyScale(b, -1))
    [] op = "*" -> QOk(qtyMul(a, b))
    [] op = "/" -> QOk(qtyMul(a, qtyPow(b, -1)))

\* part_006 lines 9-12
truncateTo(x, places) == Rat((x.num * places) \div x.den, places)
FivePlaces == 100000

\* part_004 lines 151-158
primaryCurrencyUnitName ==
  LET hits == SelectSeq(listUnits, LAMBDA nm :
                getUnit(nm).dim = DimOf("currency", 1)) IN
  IF hits = <<>> THEN <<"USD">> ELSE getUnit(hits[1]).name

\* serializeValue for a quantity, part_004 lines 138-157: the text is the
\* magnitude, a space and the unit name; fixed tells that the magnitude is
\* written with five decimals
QtyText(n, fixed, code) == [n |-> n, fixed |-> fixed, code |-> code]
serializeQuantity(v) ==
  IF v.unit.dim = DimOf("currency", 1)
  THEN QtyText(truncateTo(v.n, FivePlaces), TRUE,
               IF \E i \in 1..Len(v.unit.name) : v.unit.name[i] \in {"/", "*"}
               THEN primaryCurrencyUnitName ELSE v.unit.name)
  ELSE QtyText(v.n, FALSE, v.unit.name)

\* ---------------------------------------------------------------------
\* Canonical JSON (canonical.ts lines 16-60).  A value is null, an integer,
\* an array or an object; an object is the sequence of its entries in the
\* order JavaScript enumerates own properties: array-index keys ascending,
\* then the other keys in creation order.  A key is the sequence of its
\* UTF-16 code units.  Text is a sequence of JSON tokens.
CVal(t, n, items, entries) == [t |-> t, n |-> n, items |-> items, entries |-> entries]
CNull == CVal("null", 0, <<>>, <<>>)
CNum(n) == CVal("num", n, <<>>, <<>>)
CArr(items) == CVal("arr", 0, items, <<>>)
CObj(entries) == CVal("obj", 0, <<>>, entries)
Entry(k, v) == [k |-> k, v |-> v]

DigitZero == 48
DigitNine == 57
RECURSIVE KeyNumber(_, _)
\* the number a digit string denotes, read up to position i
KeyNumber(k, i) == IF i = 0 THEN 0 ELSE 10 * KeyNumber(k, i - 1) + (k[i] - DigitZero)
\* an array index: the canonical numeric string of an integer below
\* 2^32 - 1; keys of up to nine digits are told apart, all of which are
\* below that limit
IsArrayIndex(k) ==
  /\ Len(k) \in 1..9
  /\ \A i \in 1..Len(k) : k[i] \in DigitZero..DigitNine
  /\ Len(k) > 1 => k[1] # DigitZero

\* the order of Array.prototype.sort without a comparator: strings compared
\* code unit by code unit
LexLess(k1, k2) ==
  \E i \in 1..(Len(k1) + 1) :
    /\ \A j \in 1..(i - 1) : j <= Len(k2) /\ k1[j] = k2[j]
    /\ i <= Len(k2)
    /\ (i > Len(k1) \/ k1[i] < k2[i])

\* obj[k] = v on an ordinary object: an own key keeps its place, a new array
\* index goes to its numeric place, any other new key goes last
defineProperty(entries, k, v) ==
  IF \E i \in 1..Len(entries) : entries[i].k = k
  THEN [i \in 1..Len(entries) |-> IF entries[i].k = k THEN Entry(k, v) ELSE entries[i]]
  ELSE IF IsArrayIndex(k)
  THEN LET before == SelectSeq(entries, LAMBDA e :
                       IsArrayIndex(e.k) /\ KeyNumber(e.k, Len(e.k)) < KeyNumber(k, Len(k)))
       IN before \o <<Entry(k, v)>> \o SubSeq(entries, Len(before) + 1, Len(entries))
  ELSE Append(entries, Entry(k, v))

RECURSIVE DefineAll(_, _, _)
\* the object a JSON text with the members pairs[i..] parses to, after acc
DefineAll(pairs, i, acc) ==
  IF i > Len(pairs) THEN acc
  ELSE DefineAll(pairs, i + 1, defineProperty(acc, pairs[i].k, pairs[i].v))

\* "__proto__"
ProtoKey == <<95, 95, 112, 114, 111, 116, 111, 95, 95>>
\* sorted[key] = v, line 54: an assignment, which for the key __proto__ runs
\* the setter inherited from Object.prototype and creates no own property
assignProperty(entries, k, v) ==
  IF k = ProtoKey THEN entries ELSE defineProperty(entries, k, v)

RECURSIVE AssignAll(_, _, _)
\* the loop of lines 53-55
AssignAll(pairs, i, acc) ==
  IF i > Len(pairs) THEN acc
  ELSE AssignAll(pairs, i + 1, assignProperty(acc, pairs[i].k, pairs[i].v))

RECURSIVE SortKeys(_)
\* Object.keys(value).sort(), line 52
SortKeys(ks) ==
  IF ks = <<>> THEN <<>>
  ELSE LET least == CHOOSE i \in 1..Len(ks) :
                      \A j \in 1..Len(ks) : j # i => LexLess(ks[i], ks[j])
       IN <<ks[least]>> \o SortKeys([j \in 1..(Len(ks) - 1) |->
                                      IF j < least THEN ks[j] ELSE ks[j + 1]])

EntryOf(entries, k) == entries[CHOOSE i \in 1..Len(entries) : entries[i].k = k]

\* lines 23-60 for the values drawn: an object is rebuilt by assigning its
\* properties in sorted key order, everything else passes through
canonicalReplacer(value) ==
  IF value.t = "obj"
  THEN LET keys == SortKeys([i \in 1..Len(value.entries) |-> value.entries[i].k])
       IN CObj(AssignAll([i \in 1..Len(keys) |-> EntryOf(value.entries, keys[i])], 1, <<>>))
  ELSE value

JTok(t, k, n) == [t |-> t, k |-> k, n |-> n]
P(t) == JTok(t, <<>>, 0)
\* the line break and indentation JSON.stringify writes when its gap is not
\* empty
Gap(space) == IF space > 0 THEN <<JTok("ws", <<>>, space)>> ELSE <<>>

RECURSIVE SerializeJSONProperty(_, _)
RECURSIVE SerializeMembers(_, _, _)
RECURSIVE SerializeElements(_, _, _)
\* JSON.stringify(value, canonicalReplacer, space): the replacer is applied
\* to every value before it is written, to members and elements as well
SerializeJSONProperty(value, space) ==
  LET v == canonicalReplacer(value) IN
  CASE v.t = "null" -> <<P("null")>>
    [] v.t = "num" -> <<JTok("num", <<>>, v.n)>>
    [] v.t = "arr" ->
         IF v.items = <<>> THEN <<P("["), P("]")>>
         ELSE <<P("[")>> \o SerializeElements(v.items, 1, space) \o Gap(space) \o <<P("]")>>
    [] v.t = "obj" ->
         IF v.entries = <<>> THEN <<P("{"), P("}")>>
         ELSE <<P("{")>> \o SerializeMembers(v.entries, 1, space) \o Gap(space) \o <<P("}")>>
SerializeMembers(entries, i, space) ==
  IF i > Len(entries) THEN <<>>
  ELSE (IF i > 1 THEN <<P(",")>> ELSE <<>>) \o Gap(space)
         \o <<JTok("key", entries[i].k, 0), P(":")>> \o Gap(space)
         \o SerializeJSONProperty(entries[i].v, space)
         \o SerializeMembers(entries, i + 1, space)
SerializeElements(items, i, space) ==
  IF i > Len(items) THEN <<>>
  ELSE (IF i > 1 THEN <<P(",")>> ELSE <<>>) \o Gap(space)
         \o SerializeJSONProperty(items[i], space)
         \o SerializeElements(items, i + 1, space)

\* lines 16-18
canonicalize(value) == SerializeJSONProperty(value, 0)

RECURSIVE parseJsonValue(_, _, _)
RECURSIVE parseJsonMembers(_, _, _, _)
RECURSIVE parseJsonElements(_, _, _, _)
\* JSON.parse of a text JSON.stringify wrote, from token i on.  asObject:
\* the members are defined on an object, as JSON.parse does; otherwise the
\* entries are kept in the order of the text
parseJsonValue(toks, i, asObject) ==
  LET t == toks[i] IN
  CASE t.t = "null" -> [v |-> CNull, i |-> i + 1]
    [] t.t = "num" -> [v |-> CNum(t.n), i |-> i + 1]
    [] t.t = "[" ->
         IF toks[i + 1].t = "]" THEN [v |-> CArr(<<>>), i |-> i + 2]
         ELSE parseJsonElements(toks, i + 1, <<>>, asObject)
    [] t.t = "{" ->
         IF toks[i + 1].t = "}" THEN [v |-> CObj(<<>>), i |-> i + 2]
         ELSE parseJsonMembers(toks, i + 1, <<>>, asObject)
parseJsonMembers(toks, i, entries, asObject) ==
  LET r == parseJsonValue(toks, i + 2, asObject)
      more == IF asObject THEN defineProperty(entries, toks[i].k, r.v)
              ELSE Append(entries, Entry(toks[i].k, r.v)) IN
  IF toks[r.i].t = "," THEN parseJsonMembers(toks, r.i + 1, more, asObject)
  ELSE [v |-> CObj(more), i |-> r.i + 1]
parseJsonElements(toks, i, items, asObject) ==
  LET r == parseJsonValue(toks, i, asObject) IN
  IF toks[r.i].t = "," THEN parseJsonElements(toks, r.i + 1, Append(items, r.v), asObject)
  ELSE [v |-> CArr(Append(items, r.v)), i |-> r.i + 1]

\* JSON.parse: white space between tokens is skipped
JSONparse(text) ==
  parseJsonValue(SelectSeq(text, LAMBDA t : t.t # "ws"), 1, TRUE).v
\* the entries of every object in the order the text has them
TextOrder(text) ==
  parseJsonValue(SelectSeq(text, LAMBDA t : t.t # "ws"), 1, FALSE).v

\* ---------------------------------------------------------------------
\* Triple patterns (query/index.ts lines 46-96 and 171-182).  A term is a
\* variable, an IRI or a literal, or stands for the predicate `a'; a row is
\* [b, hits]: b the binding, a function from variable names to values, and
\* hits the triples matched so far, one per pattern, kept for the record.
TVar(x) == [kind |-> "var", v |-> x]
TIri(i) == [kind |-> "iri", v |-> i]
TLit(l) == [kind |-> "lit", v |-> l]
TA == [kind |-> "a", v |-> ""]
TriplePattern(s, p, o) == [s |-> s, p |-> p, o |-> o]
RDF_TYPE == "http://www.w3.org/1999/02/22-rdf-syntax-ns#type"

\* the term function of normalizeQuery, part_004 lines 465-476, for a
\* string: ?name is a variable, an absolute IRI is kept
SrcTerm(isVar, text) == [isVar |-> isVar, text |-> text]
term(t) == IF t.isVar THEN TVar(t.text) ELSE TIri(t.text)
\* part_004 lines 477-481
normalizePattern(tp) ==
  IF tp.p = SrcTerm(FALSE, "a") THEN TriplePattern(term(tp.s), TA, term(tp.o))
  ELSE TriplePattern(term(tp.s), term(tp.p), term(tp.o))

\* line 181: undefined for an unbound variable
bindOf(t, row) ==
  IF t.kind = "var" THEN (IF t.v \in DOMAIN row THEN Some(row[t.v]) ELSE None)
  ELSE Some(t.v)

Bind(row, x, v) == [y \in DOMAIN row \cup {x} |-> IF y = x THEN v ELSE row[y]]

\* lines 58-71: the row extended by the candidate qd; ok = FALSE: rejected
extendRow(row, tp, qd) ==
  LET sOk == IF tp.s.kind = "var"
             THEN ~(tp.s.v \in DOMAIN row /\ row[tp.s.v] # qd.s)
             ELSE tp.s.kind # "lit"
      afterS == IF tp.s.kind = "var" /\ sOk THEN Bind(row, tp.s.v, qd.s) ELSE row
      oOk == CASE tp.o.kind = "var" -> ~(tp.o.v \in DOMAIN afterS /\ afterS[tp.o.v] # qd.o)
               [] OTHER -> tp.o.v = qd.o
      afterO == IF tp.o.kind = "var" /\ oOk THEN Bind(afterS, tp.o.v, qd.o) ELSE afterS
  IN [ok |-> sOk /\ oOk, b |-> afterO]

\* lines 50-56: the candidates for one row
candidatesOf(qs, row, tp) ==
  LET pred == IF tp.p.kind = "a" THEN Some(RDF_TYPE)
              ELSE IF tp.p.kind = "iri" THEN Some(tp.p.v) ELSE None
  IN match(qs, IF tp.s.kind = "iri" THEN Some(tp.s.v) ELSE bindOf(tp.s, row),
           pred, IF tp.o.kind = "iri" THEN Some(tp.o.v) ELSE bindOf(tp.o, row), None)

RECURSIVE applyTriple(_, _, _, _)
\* lines 49-75, from row i of rowsIn on
applyTriple(qs, rowsIn, tp, i) ==
  IF i > Len(rowsIn) THEN <<>>
  ELSE LET row == rowsIn[i]
           cands == candidatesOf(qs, row.b, tp)
           exts == [j \in 1..Len(cands) |->
                      [ok |-> extendRow(row.b, tp, cands[j]).ok,
                       b |-> extendRow(row.b, tp, cands[j]).b,
                       hits |-> Append(row.hits, cands[j])]]
           kept == SelectSeq(exts, LAMBDA e : e.ok)
       IN [j \in 1..Len(kept) |-> [b |-> kept[j].b, hits |-> kept[j].hits]]
            \o applyTriple(qs, rowsIn, tp, i + 1)

RECURSIVE applyPatterns(_, _, _, _)
\* lines 47 and 77-96 for triple patterns: rows starts as one empty row
applyPatterns(qs, patterns, i, rows) ==
  IF i > Len(patterns) THEN rows
  ELSE applyPatterns(qs, patterns, i + 1, applyTriple(qs, rows, patterns[i], 1))

EmptyRow == [b |-> [x \in {} |-> ""], hits |-> <<>>]

\* no quantity operation, canonicalize call or pattern match has been made
NoQtyCall == [op |-> "none", a |-> NoQuantity, b |-> NoQuantity, res |-> QThrow,
              text |-> QtyText(Rat(0, 1), FALSE, <<>>)]
NoCanonCall == [done |-> FALSE, value |-> CNull, text |-> <<>>, again |-> <<>>]
NoPatCall == [done |-> FALSE, quads |-> <<>>, patterns |-> <<>>, rows |-> <<>>]

PureInit ==
  /\ qty = NoQtyCall
  /\ canon = NoCanonCall
  /\ pat = NoPatCall

NoOut == [value |-> [null |-> TRUE, quads |-> <<>>], diagnostics |-> <<>>,
          hasSig |-> FALSE, sig |-> NoSig, durationMs |-> 0]
EmptySt == [state |-> [x \in {} |-> Undef], quads |-> <<>>, diags |-> <<>>, changed |-> FALSE]
NoSubject == Iri("", "")

\* requested capability maps, in the insertion order of their keys
CapApi == "https://api.example.com"
CapEvil == "https://evil.com"
Cap(cap, values) == [cap |-> cap, values |-> values]
CapsChoices ==
  {<<Cap("network", <<CapApi>>)>>,
   <<Cap("network", <<CapEvil>>)>>,
   <<Cap("network", <<CapApi, CapEvil>>), Cap("file", <<"read:/tmp", "write:/etc">>)>>,
   <<Cap("network", <<>>)>>,
   <<Cap("constructor", <<"x">>)>>}
\* inputs that EvalInput rejects: doc is null, auth is missing, timeoutMs is
\* out of range
InvalidInputs ==
  {[Input(DocOne, NoOptions) EXCEPT !.docKind = "null"],
   [Input(DocOne, NoOptions) EXCEPT !.auth = NoAuth],
   [Input(DocOne, NoOptions) EXCEPT !.options.timeoutMs = 0],
   [Input(DocOne, NoOptions) EXCEPT !.options.timeoutMs = MaxTimeoutMs + 1]}
Inputs ==
  {Input(d, NoOptions) : d \in Docs}
    \cup {Input(DocOne, [NoOptions EXCEPT !.caps = c]) : c \in CapsChoices}
    \cup InvalidInputs

Init ==
  /\ input \in Inputs
  /\ pc = "call"
  /\ signal \in BOOLEAN
  /\ raised = "never"
  /\ subject = NoSubject
  /\ layers = <<>>
  /\ li = 1 /\ ni = 1 /\ iter = 0 /\ changed = FALSE
  /\ st = EmptySt
  /\ evals = [x \in {} |-> 0]
  /\ passes = <<>>
  /\ out = NoOut
  /\ clock = 0
  /\ calls = <<>>
  /\ started = 0
  /\ reqId = 0
  /\ cached = {}
  /\ LimInit
  /\ StoreInit
  /\ DataInit
  /\ PureInit

\* no call of the handler is under way
HandlerIdle == input = Input(DocDiverge, NoOptions) /\ signal = FALSE /\ pc = "call"

runVars == <<subject, layers, li, ni, iter, changed, st, evals, passes>>

\* policy.ts lines 130-169 and the abort check of runtime.evaluate: the
\* handler runs without suspension up to `await import(...)'
HandlerStart ==
  /\ pc = "call"
  /\ IF ~EntersRuntime(input)
     THEN pc' = "returned" /\ out' = schemaErrorOutput(0)
     ELSE IF signal
     THEN pc' = "returned" /\ out' = timeoutOutput(input, 0)
     ELSE pc' = "import" /\ out' = out
  /\ started' = clock
  /\ UNCHANGED <<input, reqId, signal, raised, clock, calls>>
  /\ UNCHANGED runVars
  /\ UNCHANGED <<limVars, storeVars, dataVars, pureVars, cached>>

\* the host's signal or the timeout timer fires while the handler is
\* suspended on the import; evalDocument itself never suspends
HostAbort ==
  /\ pc = "import"
  /\ ~signal
  /\ signal' = TRUE
  /\ raised' = "before-layers"
  /\ UNCHANGED <<input, started, reqId, pc, out, clock, calls>>
  /\ UNCHANGED runVars
  /\ UNCHANGED <<limVars, storeVars, dataVars, pureVars, cached>>

\* evalDocument lines 22-27
IndexDocument ==
  /\ pc = "import"
  /\ LET ix == indexComputations(input.doc) IN
     IF ~ix.ok
     THEN /\ pc' = "threw"
          /\ UNCHANGED runVars
     ELSE LET dag == buildDag(ix.nodes)
              order == topoSort(dag) IN
          /\ pc' = "layers"
          /\ subject' = ix.subject
          /\ layers' = order
          /\ st' = [state |-> ix.env, quads |-> ix.quads, diags |-> <<>>, changed |-> FALSE]
          /\ evals' = [id \in Range(dag.ids) |-> 0]
          /\ passes' = [i \in 1..Len(order) |-> [n |-> 0, quiet |-> FALSE]]
          /\ li' = 1 /\ ni' = 1 /\ iter' = 0 /\ changed' = FALSE
  /\ UNCHANGED <<input, started, reqId, signal, raised, out, clock, calls>>
  /\ UNCHANGED <<limVars, storeVars, dataVars, pureVars, cached>>

AtNode == pc = "layers" /\ li <= Len(layers) /\ ni <= Len(layers[li].nodes)
CurNode == layers[li].nodes[ni]

\* one turn of the loop of evalLayer
EvalNodeStep ==
  /\ AtNode
  /\ st' = EvalNode(CurNode, st, subject, [now |-> clock])
  /\ changed' = (changed \/ st'.changed)
  /\ ni' = ni + 1
  /\ evals' = [evals EXCEPT ![CurNode.id] = @ + 1]
  /\ passes' = IF ni = 1 THEN [passes EXCEPT ![li].n = @ + 1] ELSE passes
  /\ cached' = cached \cup (IF CurNode.kind = "query" THEN {}
                             ELSE cacheDefinedBy(CurNode.exprAst, ScopeOf(st.state),
                                                 [now |-> clock]))
  /\ UNCHANGED <<input, started, reqId, pc, signal, raised, subject, layers, li, iter, out, clock, calls>>
  /\ UNCHANGED <<limVars, storeVars, dataVars, pureVars>>

\* evalLayer returned: lines 33-37 for a fixpoint layer, line 40 otherwise
EndPass ==
  /\ pc = "layers" /\ li <= Len(layers) /\ ni > Len(layers[li].nodes)
  /\ IF layers[li].fixpoint /\ changed /\ iter + 1 < MaxFixpointIter
     THEN iter' = iter + 1 /\ li' = li
     ELSE iter' = 0 /\ li' = li + 1
  /\ ni' = 1
  /\ changed' = FALSE
  /\ passes' = [passes EXCEPT ![li].quiet = ~changed]
  /\ UNCHANGED <<input, started, reqId, pc, signal, raised, subject, layers, st, evals, out, clock, calls>>
  /\ UNCHANGED <<limVars, storeVars, dataVars, pureVars, cached>>

\* evalDocument line 44
DocumentReturn ==
  /\ pc = "layers" /\ li > Len(layers)
  /\ pc' = "evaluated"
  /\ UNCHANGED <<input, started, reqId, signal, raised, out, clock, calls>>
  /\ UNCHANGED runVars
  /\ UNCHANGED <<limVars, storeVars, dataVars, pureVars, cached>>

\* services lines 61-85 and policy.ts lines 171-207
HandlerReturn ==
  /\ pc \in {"evaluated", "threw"}
  /\ out' = successOutput(input,
                          runtimeResult([ok |-> pc = "evaluated", quads |-> st.quads,
                                         diags |-> st.diags]), clock - started)
  /\ pc' = "returned"
  /\ UNCHANGED <<input, started, reqId, signal, raised, clock, calls>>
  /\ UNCHANGED runVars
  /\ UNCHANGED <<limVars, storeVars, dataVars, pureVars, cached>>

Next ==
  \/ HandlerStart
  \/ HostAbort
  \/ IndexDocument
  \/ EvalNodeStep
  \/ EndPass
  \/ DocumentReturn
  \/ HandlerReturn

Spec == Init /\ [][Next]_vars

TypeOK == pc \in {"idle", "call", "import", "layers", "threw", "evaluated", "returned"}
\* while the clock stands still the step-by-step run computes what
\* evalDocument and evaluate compute
StepwiseAgrees ==
  /\ (pc = "evaluated" /\ started = clock) =>
       LET r == evalDocument(input.doc, [now |-> clock]) IN
       r.ok /\ r.quads = st.quads /\ r.diags = st.diags
  /\ (pc = "returned" /\ started = clock) =>
       out = evaluate(input, signal /\ raised = "never", clock, 0)

(***************************************************************************)
(* Properties of one evaluation                                            *)
(***************************************************************************)
LayerNodes == UNION {Range(layers[i].nodes) : i \in 1..Len(layers)}
TriplesFor(n) == {i \in 1..Len(st.quads) : st.quads[i].s = subject /\ st.quads[i].p = n.id}
DiagCodes == {st.diags[i].code : i \in 1..Len(st.diags)}
DiagsAt(code, path) == {i \in 1..Len(st.diags) : st.diags[i] = Diag(code, path)}
CurResult == evalExpr(CurNode.exprAst, ScopeOf(st.state), [now |-> clock])
AllEvaluated == \A n \in LayerNodes : evals[n.id] >= 1

\* C2: every node of a non-fixpoint layer is evaluated at most once while
\* the document is evaluated and exactly once when evalDocument has
\* returned, a fixpoint layer is passed over at most 10 times, and every
\* step lowers a natural-number measure of the work left, so that every
\* run comes to its end.
C2_BoundedWork ==
  \A i \in 1..Len(layers) :
    IF layers[i].fixpoint THEN passes[i].n <= 10
    ELSE /\ passes[i].n <= 1
         /\ \A n \in Range(layers[i].nodes) :
              /\ evals[n.id] <= 1
              /\ pc \in {"evaluated", "returned"} => evals[n.id] = 1
\* what is left to do, as a natural number that every step lowers: the
\* turns of the node loop still possible, below the handler's own steps
RECURSIVE WorkFrom(_, _)
WorkFrom(ls, k) ==
  IF k > Len(ls) THEN 0
  ELSE (IF ls[k].fixpoint THEN 10 ELSE 1) * (Len(ls[k].nodes) + 1) + WorkFrom(ls, k + 1)
PlannedLayers(doc) ==
  LET ix == indexComputations(doc) IN
  IF ix.ok THEN topoSort(buildDag(ix.nodes)) ELSE <<>>
RankOf(p, sig, doc, ls, l, n, it) ==
  CASE p = "call" -> WorkFrom(PlannedLayers(doc), 1) + 5
    [] p = "import" -> WorkFrom(PlannedLayers(doc), 1) + (IF sig THEN 3 ELSE 4)
    [] p = "layers" ->
         IF l > Len(ls) THEN 2
         ELSE 2 + WorkFrom(ls, l + 1)
                + ((IF ls[l].fixpoint THEN 10 ELSE 1) - it) * (Len(ls[l].nodes) + 1)
                - (n - 1)
    [] p \in {"evaluated", "threw"} -> 1
    [] OTHER -> 0
Rank == RankOf(pc, signal, input.doc, layers, li, ni, iter)
C2_Terminates ==
  [][/\ RankOf(pc', signal', input'.doc, layers', li', ni', iter') < Rank
     /\ RankOf(pc', signal', input'.doc, layers', li', ni', iter') >= 0
     /\ C2_BoundedWork']_vars
\* a cycle that never settles has been passed over 10 times, next to a
\* plain layer whose nodes ran once
C2_Witness ==
  /\ pc = "evaluated"
  /\ \E i, j \in 1..Len(layers) :
       /\ layers[i].fixpoint /\ passes[i].n = 10 /\ ~passes[i].quiet
       /\ ~layers[j].fixpoint /\ \A n \in Range(layers[j].nodes) : evals[n.id] = 1

\* C3: when evalDocument has returned, every fixpoint layer either ended
\* with a pass in which no node changed or the diagnostics contain
\* LDC_FIXPOINT_LIMIT; for a = b + 1, b = a - 1 the diagnostics contain
\* LDC_FIXPOINT_LIMIT, there is no derived triple for a or b, and the
\* directive outside the cycle has its triple.
C3_FixpointLimit ==
  pc = "evaluated" =>
    /\ \A i \in 1..Len(layers) :
         layers[i].fixpoint => passes[i].quiet \/ "LDC_FIXPOINT_LIMIT" \in DiagCodes
    /\ input.doc = DocCyclePair =>
         /\ "LDC_FIXPOINT_LIMIT" \in DiagCodes
         /\ \A n \in LayerNodes :
              IF n.plainKey \in {"a", "b"} THEN TriplesFor(n) = {} ELSE TriplesFor(n) # {}

\* C4: when evalDocument has returned, the store holds at most one derived
\* triple with the root subject and the predicate of any one directive.
C4_AtMostOneTriple ==
  pc = "evaluated" => \A n \in LayerNodes : Cardinality(TriplesFor(n)) <= 1

\* C5: for a node N of a non-fixpoint layer, every node whose writes
\* contain a name that N reads lies in a strictly earlier layer.
C5_ReadsEarlier ==
  \A i, j \in 1..Len(layers) :
    ~layers[i].fixpoint =>
      \A n \in Range(layers[i].nodes), m \in Range(layers[j].nodes) :
        n.reads \cap Range(m.writes) # {} => j < i

\* C6 as stated: an evaluation of a directive node that raises an error
\* appends the diagnostic LDC_EXPR_ERR with the node's IRI as path and adds
\* no triple, and when evalDocument returns every node has been evaluated.
C6_ExprErrAlways ==
  [][/\ (AtNode /\ ~CurResult.ok) =>
          /\ st'.diags = Append(st.diags, Diag("LDC_EXPR_ERR", CurNode.id))
          /\ st'.quads = st.quads
     /\ pc' = "evaluated" => AllEvaluated]_vars

\* C6: an evaluation of a directive node that raises an error appends
\* exactly one diagnostic with the node's IRI as path, LDC_EXPR_ERR for an
\* @expr or @view node and LDC_CONSTRAINT_FAILED for a @constraint node,
\* adds no triple and leaves the state map alone, and when evalDocument
\* returns every node has been evaluated.
C6_ErrorContained ==
  [][/\ (AtNode /\ ~CurResult.ok) =>
          /\ st'.diags = Append(st.diags,
                                Diag(IF CurNode.kind = "constraint"
                                     THEN "LDC_CONSTRAINT_FAILED" ELSE "LDC_EXPR_ERR",
                                     CurNode.id))
          /\ st'.quads = st.quads
          /\ st'.state = st.state
     /\ pc' = "evaluated" => AllEvaluated]_vars
\* a division by zero has been recorded for an @expr node and for a
\* @constraint node of one document, both of which were evaluated
C6_Witness ==
  /\ pc = "evaluated"
  /\ \E n, m \in LayerNodes :
       /\ n.kind = "expr" /\ m.kind = "constraint"
       /\ n.exprAst = parseExpr(SrcDivZero).ast /\ m.exprAst = parseExpr(SrcDivZero).ast
       /\ DiagsAt("LDC_EXPR_ERR", n.id) # {} /\ DiagsAt("LDC_CONSTRAINT_FAILED", m.id) # {}
       /\ TriplesFor(n) = {}
       /\ evals[n.id] = 1 /\ evals[m.id] = 1

ParseFails(v) == v.kind # "num" /\ ~parseExpr(v.src).ok

\* C7: a document with a directive whose source fails to parse still makes
\* evalDocument return normally, with a diagnostic for that directive, the
\* directive left out of the schedule and every other directive evaluated.
C7_ParseFailureContained ==
  \A i \in 1..Len(input.doc.props) :
    ParseFails(input.doc.props[i].v) =>
      /\ pc # "threw"
      /\ pc = "evaluated" =>
           /\ \E d \in 1..Len(st.diags) :
                st.diags[d].path = expandIri(input.doc.props[i].k, input.doc.ctx)
           /\ \A n \in LayerNodes : n.plainKey # input.doc.props[i].k
           /\ \A j \in 1..Len(input.doc.props) :
                (input.doc.props[j].v.kind # "num" /\ ~ParseFails(input.doc.props[j].v)) =>
                  \E n \in LayerNodes : n.plainKey = input.doc.props[j].k /\ evals[n.id] >= 1

\* C8 as stated: a @constraint node never changes the state map and never
\* adds a triple, and when evalDocument returns a constraint whose
\* expression is falsy has exactly one diagnostic LDC_CONSTRAINT_FAILED
\* with its IRI as path.
C8_OneDiagnosticPerNode ==
  [][/\ (AtNode /\ CurNode.kind = "constraint") =>
          st'.state = st.state /\ st'.quads = st.quads
     /\ pc' = "evaluated" =>
          \A n \in LayerNodes :
            LET r == evalExpr(n.exprAst, ScopeOf(st.state), [now |-> clock]) IN
            (n.kind = "constraint" /\ r.ok /\ ~Truthy(r.v)) =>
              Cardinality(DiagsAt("LDC_CONSTRAINT_FAILED", n.id)) = 1]_vars

\* C8: each evaluation of a @constraint node leaves the state map and the
\* store alone; it appends exactly one diagnostic LDC_CONSTRAINT_FAILED
\* with the node's IRI as path when the expression is falsy and none when
\* it is truthy.
C8_OneDiagnosticPerEvaluation ==
  [][(AtNode /\ CurNode.kind = "constraint") =>
       /\ st'.state = st.state
       /\ st'.quads = st.quads
       /\ (CurResult.ok /\ ~Truthy(CurResult.v)) =>
            st'.diags = Append(st.diags, Diag("LDC_CONSTRAINT_FAILED", CurNode.id))
       /\ (CurResult.ok /\ Truthy(CurResult.v)) => st'.diags = st.diags]_vars
\* a constraint that reads a cycle was evaluated in both passes of the
\* fixpoint layer and failed in both
C8_Witness ==
  /\ pc = "evaluated"
  /\ \E n \in LayerNodes :
       /\ n.kind = "constraint"
       /\ evals[n.id] = 2
       /\ Cardinality(DiagsAt("LDC_CONSTRAINT_FAILED", n.id)) = 2
       /\ st.quads = <<>>

\* C9: once the abort signal has been raised with layers still to be
\* evaluated, no further node is evaluated and the call returns a timeout
\* diagnostic.
C9_AbortStopsEvaluation ==
  raised = "before-layers" =>
    /\ \A id \in DOMAIN evals : evals[id] = 0
    /\ (pc = "returned" /\ Len(layers) > 0) =>
         \E i \in 1..Len(out.diagnostics) : out.diagnostics[i].code = "timeout"

(***************************************************************************)
(* Calls of evaluate over time                                             *)
(*                                                                         *)
(* The wall clock advances at any moment; when a call has returned the     *)
(* next one starts.  calls keeps the call before the current one: input,   *)
(* start time, request id and output.                                      *)
(***************************************************************************)
DocNow == Doc(CtxEx, <<Prop("a", Directive("expr", SrcNow))>>)
DocOneTwo ==
  Doc(CtxEx, <<Prop("a", Directive("expr", SrcOne)), Prop("b", Directive("expr", SrcTwo))>>)
DocTwoOne ==
  Doc(CtxEx, <<Prop("b", Directive("expr", SrcTwo)), Prop("a", Directive("expr", SrcOne))>>)
DocInertFirst ==
  Doc(CtxEx, <<Prop("a", InertNum(1)), Prop("b", Directive("expr", SrcAPlus1))>>)
DocInertLast ==
  Doc(CtxEx, <<Prop("b", Directive("expr", SrcAPlus1)), Prop("a", InertNum(1))>>)
DocCtxExAlt == Doc(CtxExAlt, <<Prop("a", Directive("expr", SrcOne))>>)
DocCtxAltEx == Doc(CtxAltEx, <<Prop("a", Directive("expr", SrcOne))>>)
SigDocs == {DocNow, DocOneTwo, DocTwoOne, DocInertFirst, DocInertLast, DocCtxExAlt, DocCtxAltEx}
SigInputs ==
  {Input(d, [NoOptions EXCEPT !.timeoutMs = t]) : d \in SigDocs, t \in {1000, DefaultTimeoutMs}}

SigInit ==
  /\ input \in SigInputs
  /\ pc = "call"
  /\ signal = FALSE
  /\ raised = "never"
  /\ subject = NoSubject
  /\ layers = <<>>
  /\ li = 1 /\ ni = 1 /\ iter = 0 /\ changed = FALSE
  /\ st = EmptySt
  /\ evals = [x \in {} |-> 0]
  /\ passes = <<>>
  /\ out = NoOut
  /\ clock = 0
  /\ calls = <<>>
  /\ started = 0
  /\ reqId = 0
  /\ cached = {}
  /\ LimInit
  /\ StoreInit
  /\ DataInit
  /\ PureInit

\* time passes
Tick ==
  /\ clock < MaxClock
  /\ clock' = clock + 1
  /\ UNCHANGED <<input, pc, signal, out, raised, calls, started, reqId>>
  /\ UNCHANGED runVars
  /\ UNCHANGED <<limVars, storeVars, dataVars, pureVars, cached>>

\* the call has returned; the next call arrives with a fresh request id
NextCall ==
  /\ pc = "returned"
  /\ calls' = <<[input |-> input, at |-> started, reqId |-> reqId, out |-> out]>>
  /\ input' \in SigInputs
  /\ reqId' = 1 - reqId
  /\ pc' = "call"
  /\ signal' = FALSE
  /\ raised' = "never"
  /\ subject' = NoSubject
  /\ layers' = <<>>
  /\ li' = 1 /\ ni' = 1 /\ iter' = 0 /\ changed' = FALSE
  /\ st' = EmptySt
  /\ evals' = [x \in {} |-> 0]
  /\ passes' = <<>>
  /\ out' = NoOut
  /\ cached' = {}
  /\ UNCHANGED <<clock, started>>
  /\ UNCHANGED <<limVars, storeVars, dataVars, pureVars>>

SigNext == Next \/ Tick \/ NextCall

SpecSig == SigInit /\ [][SigNext]_vars

SameOptionsButTimeout(o1, o2) == [o1 EXCEPT !.timeoutMs = 0] = [o2 EXCEPT !.timeoutMs = 0]

\* C1: when a call returns a sig and the call before it was made with the
\* same document and the same options apart from timeoutMs, both return the
\* same sig, whatever the wall clock, the measured duration, the request id
\* and timeoutMs of each.
C1_SigDeterministic ==
  (/\ pc = "returned" /\ calls # <<>>
   /\ calls[1].input.doc = input.doc
   /\ SameOptionsButTimeout(calls[1].input.options, input.options)) =>
    calls[1].out.sig = out.sig

\* C10: when two calls in a row, made with the same options while the
\* clock stands still, have documents that differ only in the order of
\* their keys (the keys of @context included), both return the same sig.
C10_SigIgnoresKeyOrder ==
  (/\ pc = "returned" /\ calls # <<>>
   /\ calls[1].at = clock
   /\ calls[1].input.options = input.options
   /\ CanonDoc(calls[1].input.doc) = CanonDoc(input.doc)) =>
    calls[1].out.sig = out.sig

(***************************************************************************)
(* Properties of the handler                                               *)
(***************************************************************************)
OutCodes == {out.diagnostics[i].code : i \in 1..Len(out.diagnostics)}

\* C11: the handler always comes to a return: it is at one of its
\* positions, inside the layer loop the guard of a step holds, an exception
\* of the runtime is a position from which it returns, and what it returns
\* carries a sig or a diagnostic.  For an
\* input that fails schema validation it returns value null, the single
\* diagnostic schema_error and no sig, and the runtime is never entered.
C11_SchemaErrorReturned ==
  /\ pc \in {"call", "import", "layers", "evaluated", "threw", "returned"}
  /\ pc = "layers" =>
       /\ li \in 1..Len(layers) + 1
       /\ li <= Len(layers) => ni \in 1..Len(layers[li].nodes) + 1
  /\ pc = "returned" => out.hasSig \/ out.diagnostics # <<>>
  /\ ((\/ input.docKind = "null"
        \/ ~input.auth.present
        \/ input.options.timeoutMs \notin 1..5000) /\ pc # "call") =>
       /\ pc = "returned"
       /\ out.value.null
       /\ OutCodes = {"schema_error"}
       /\ ~out.hasSig
       /\ layers = <<>> /\ st = EmptySt /\ DOMAIN evals = {}
\* a call whose doc is null has returned its schema error
C11_Witness ==
  /\ pc = "returned"
  /\ input.docKind = "null"
  /\ out = schemaErrorOutput(0)

\* C12: enforcement yields a result in which every requested value lies in
\* exactly one of allowed and denied, a value is allowed only if the policy
\* lists it for its capability, and every allowed value was requested; the
\* returned diagnostics hold cap_denied exactly when some requested value
\* is not allowed, and the signed payload carries the allowed capabilities.
C12_DefaultDeny ==
  LET req == input.options.caps
      e == enforceCaps(req)
      In(entries, cap, v) ==
        \E a \in 1..Len(entries) : entries[a].cap = cap /\ v \in Range(entries[a].values)
      Listed(cap, v) == cap = "network" /\ v = "https://api.example.com" IN
  (input.docKind = "object" /\ input.auth.present /\ input.options.timeoutMs \in 1..5000) =>
    /\ e.ok
    /\ \A i \in 1..Len(req) : \A v \in Range(req[i].values) :
         /\ In(e.allowed, req[i].cap, v) # In(e.denied, req[i].cap, v)
         /\ In(e.allowed, req[i].cap, v) => Listed(req[i].cap, v)
    /\ \A a \in 1..Len(e.allowed) : \A v \in Range(e.allowed[a].values) :
         In(req, e.allowed[a].cap, v)
    /\ pc = "returned" =>
         /\ "cap_denied" \in OutCodes <=>
              \E i \in 1..Len(req) : \E v \in Range(req[i].values) : ~Listed(req[i].cap, v)
         /\ out.hasSig => out.sig.mac.options.caps = CanonCaps(e.allowed)


\* the document with every @view directive written as @expr on the same key
ExprTwin(doc) ==
  [doc EXCEPT !.props = [i \in DOMAIN doc.props |->
     IF doc.props[i].v.kind = "view"
     THEN [doc.props[i] EXCEPT !.v = Directive("expr", doc.props[i].v.src)]
     ELSE doc.props[i]]]

\* C16: a document with an @view directive evaluates as the document with
\* @expr in its place on the same key: the same derived triples (root
\* subject, expanded IRI, serialized value), the same diagnostics, and the
\* same value in the state map for every property that got one.
C16_ViewAsExpr ==
  (/\ pc = "evaluated" /\ started = clock
   /\ \E i \in 1..Len(input.doc.props) : input.doc.props[i].v.kind = "view")
  => LET r == evalDocument(ExprTwin(input.doc), [now |-> clock])
     IN /\ r.ok
        /\ st.quads = r.quads
        /\ st.diags = r.diags
        /\ \A k \in DOMAIN r.state :
             r.state[k].t # "obj" => (k \in DOMAIN st.state /\ st.state[k] = r.state[k])

\* C17: `and' / `&&' and `or' / `||' short-circuit: when the left operand
\* of `and' is falsy, or that of `or' is truthy, the expression yields the
\* left operand's value without error whatever the right operand does; in
\* particular the documents holding `false and 1/0', `true or 1/0' and their
\* symbol forms evaluate without a diagnostic and derive the triple false
\* resp. true.
C17_ShortCircuit ==
  /\ AtNode =>
       LET ast == CurNode.exprAst
           l == evalExpr(ast.kids[1], ScopeOf(st.state), [now |-> clock])
       IN (/\ ast.t = "binary" /\ ast.op \in {"and", "&&", "or", "||"} /\ l.ok
           /\ Truthy(l.v) = (ast.op \in {"or", "||"}))
          => (CurResult.ok /\ CurResult.v = l.v)
  /\ (pc = "returned" /\ signal = FALSE
      /\ \E src \in ShortCircuitSrcs : input.doc = DocShortCircuit(src)) =>
       /\ out.diagnostics = <<>>
       /\ ~out.value.null
       /\ Len(out.value.quads) = 1
       /\ out.value.quads[1].o =
            serializeValue(Bool(input.doc.props[1].v.src[1].w = "true")).o

(***************************************************************************)
(* Documents with a @query                                                 *)
(***************************************************************************)
\* a property a, a query b over the triples of a, b or c, and a property c
QueryDocs ==
  {Doc(CtxEx, <<Prop("a", x), Prop("b", QueryOn(t)), Prop("c", y)>>) :
     x \in {InertNum(1), Directive("expr", SrcOne), Directive("expr", SrcTwo),
            Directive("expr", SrcDivZero)},
     t \in {"a", "b", "c"},
     y \in {InertNum(1), Directive("expr", SrcOne), Directive("expr", SrcBPlus1)}}

QueryInit ==
  /\ input \in {Input(d, NoOptions) : d \in QueryDocs}
  /\ pc = "call"
  /\ signal \in BOOLEAN
  /\ raised = "never"
  /\ subject = NoSubject
  /\ layers = <<>>
  /\ li = 1 /\ ni = 1 /\ iter = 0 /\ changed = FALSE
  /\ st = EmptySt
  /\ evals = [x \in {} |-> 0]
  /\ passes = <<>>
  /\ out = NoOut
  /\ clock = 0
  /\ calls = <<>>
  /\ started = 0
  /\ reqId = 0
  /\ cached = {}
  /\ LimInit
  /\ StoreInit
  /\ DataInit
  /\ PureInit

SpecQuery == QueryInit /\ [][Next]_vars

DataFileOf(relations, props) == [ctx |-> CtxEx, relations |-> relations, props |-> props]

\* lines 317-324: the document handed to the evaluator
processedDoc(file, refValues, rollupValues) ==
  Doc(file.ctx,
      [i \in 1..Len(file.props) |->
         LET k == file.props[i].k IN
         Prop(k, IF k \in DOMAIN rollupValues THEN ToInert(rollupValues[k])
                 ELSE IF k \in DOMAIN refValues THEN ToInert(refValues[k])
                 ELSE file.props[i].v.plain)])

\* evalDataFile, lines 299-364; threw: the promise rejects
evalDataFile(file) ==
  LET refs == processRefs(file, file.relations)
      rollups == processRollups(file, file.relations)
      r == evalDocument(processedDoc(file, refs.computed, rollups.computed), [now |-> 0])
  IN IF ~refs.ok \/ ~rollups.ok \/ ~r.ok
     THEN [NoDataOut EXCEPT !.done = TRUE, !.threw = TRUE]
     ELSE [done |-> TRUE, threw |-> FALSE,
           output |-> [k \in DOMAIN refs.computed \cup DOMAIN rollups.computed |->
                         IF k \in DOMAIN rollups.computed THEN rollups.computed[k]
                         ELSE refs.computed[k]],
           triples |-> r.quads,
           diagnostics |-> r.diags]

ItemActive == JObj([budget |-> JNum(100), status |-> JStr("active")])
ItemArchived == JObj([budget |-> JNum(50), status |-> JStr("archived")])
\* the projects file: two items and a total that is not an array
Projects == JObj([items |-> JArr(<<ItemActive, ItemArchived>>), total |-> JNum(7)])
Relations == [projects |-> Projects]

StatusActive == FilterOn("status", "==", LitStr("active"))
BudgetAbove75 == FilterOn("budget", ">", LitNum(75))

\* well-formed shorthands, and the four failures: an alias that is not
\* loaded, a target that is not an array, an unknown or missing aggregate,
\* a shorthand with a single segment
RollupPaths ==
  {<<"projects", "items", "budget">>, <<"projects", "items">>, <<"projects", "total", "budget">>,
   <<"tasks", "items", "budget">>, <<"projects">>}
RollupRests == {<<"sum">>, <<"count">>, <<"median">>, <<>>}
RollupProps ==
  {DRollup(Shorthand(path, rest), sibling) :
     path \in RollupPaths, rest \in RollupRests,
     sibling \in {NoFilter, StatusActive, BudgetAbove75}}
    \cup {DRollupObject(Config("projects", "items", <<"budget">>, <<agg>>, f)) :
            agg \in {"sum", "median"}, f \in {NoFilter, StatusActive}}
RefProps ==
  {DRef(<<Seg("projects"), Seg("total")>>),
   DRef(<<Seg("projects"), SegAt("items", 0), Seg("budget")>>),
   DRef(<<Seg("projects"), Seg("missing")>>),
   DRef(<<Seg("tasks"), Seg("total")>>)}

DataFiles ==
  {DataFileOf(Relations, <<Prop("a", x), Prop("b", y)>>) :
     x \in RollupProps \cup RefProps,
     y \in {DPlain(InertNum(1)), DPlain(Directive("expr", SrcAPlus1)),
            DRef(<<Seg("projects"), Seg("total")>>),
            DRef(<<Seg("tasks"), Seg("total")>>)}}

\* main has totalActive = {"@rollup": "projects.items.budget:sum",
\* "filter": "status == 'active'"}, here under the key a
FileTotalActive ==
  DataFileOf(Relations,
             <<Prop("a", DRollup(Shorthand(<<"projects", "items", "budget">>, <<"sum">>),
                                 StatusActive)),
               Prop("b", DPlain(InertNum(1)))>>)

\* evalDataFile up to its await, lines 299-336: the file is read, its @ref
\* and @rollup properties are computed, and the processed document is handed
\* to the evaluator (input holds the document under evaluation); an
\* exception ends the run at once
EvalDataFile ==
  \E file \in DataFiles :
    LET refs == processRefs(file, file.relations)
        rollups == processRollups(file, file.relations)
    IN /\ pc = "call" /\ dataFile = NoDataFile
       /\ dataFile' = file
       /\ IF ~refs.ok \/ ~rollups.ok
          THEN /\ dataOut' = [NoDataOut EXCEPT !.done = TRUE, !.threw = TRUE]
               /\ UNCHANGED handlerVars
          ELSE /\ input' = Input(processedDoc(file, refs.computed, rollups.computed),
                                 NoOptions)
               /\ pc' = "import"
               /\ UNCHANGED <<dataOut, signal, raised, runVars, out, clock, calls,
                              started, reqId, cached>>
       /\ UNCHANGED <<limVars, storeVars, pureVars>>

\* evalDataFile after its await, lines 339-363
DataFileReturn ==
  /\ pc \in {"evaluated", "threw"} /\ dataFile # NoDataFile /\ ~dataOut.done
  /\ LET refs == processRefs(dataFile, dataFile.relations)
         rollups == processRollups(dataFile, dataFile.relations)
     IN dataOut' =
          IF pc = "threw" THEN [NoDataOut EXCEPT !.done = TRUE, !.threw = TRUE]
          ELSE [done |-> TRUE, threw |-> FALSE,
                output |-> [k \in DOMAIN refs.computed \cup DOMAIN rollups.computed |->
                              IF k \in DOMAIN rollups.computed THEN rollups.computed[k]
                              ELSE refs.computed[k]],
                triples |-> st.quads,
                diagnostics |-> st.diags]
  /\ UNCHANGED <<dataFile, handlerVars, limVars, storeVars, pureVars>>

DataNext ==
  EvalDataFile \/ IndexDocument \/ EvalNodeStep \/ EndPass \/ DocumentReturn
    \/ DataFileReturn

DataSpecInit == Init /\ HandlerIdle

SpecData == DataSpecInit /\ [][DataNext]_vars

\* the run in steps computes what evalDataFile computes
DataStepwiseAgrees == dataOut.done => dataOut = evalDataFile(dataFile)

\* the value the rollup of property i of the file has when its sibling
\* filter is applied: that of the object form carrying the filter
FilteredRollup(file, i) ==
  LET v == file.props[i].v
      p == parseRollupShorthand(v.short)
  IN rollupOne(DRollupObject([p.config EXCEPT !.filter = v.sibling]), file.relations)

\* C19: a shorthand rollup with a sibling filter aggregates only the items
\* that satisfy the filter; for the projects file with the items
\* {budget: 100, status: active} and {budget: 50, status: archived} the sum
\* of budget filtered by status == 'active' is 100, with no diagnostics.
C19_ShorthandFilter ==
  /\ (dataOut.done /\ ~dataOut.threw) =>
       \A i \in 1..Len(dataFile.props) :
         (/\ dataFile.props[i].v.kind = "rollup"
          /\ dataFile.props[i].v.sibling # NoFilter) =>
           /\ dataFile.props[i].k \in DOMAIN dataOut.output
           /\ dataOut.output[dataFile.props[i].k] = FilteredRollup(dataFile, i).v
  /\ (dataOut.done /\ dataFile = FileTotalActive) =>
       /\ ~dataOut.threw
       /\ dataOut.output["a"] = JNum(100)
       /\ dataOut.diagnostics = <<>>

\* a @ref or @rollup property whose resolution fails
ResolutionFails(file, i) ==
  LET v == file.props[i].v IN
  \/ v.kind = "ref" /\ ~resolvePath(v.path, file.relations).ok
  \/ v.kind \in {"rollup", "rollupObject"} /\ ~rollupOne(v, file.relations).ok

\* C20: a @ref or @rollup whose resolution fails (alias not loaded, target
\* not an array, unknown aggregate, malformed shorthand) is captured as a
\* diagnostic and the other properties are evaluated: no exception leaves
\* evalDataFile, and every @ref and @rollup that resolves has its value in
\* the output.
C20_ResolutionFailureContained ==
  dataOut.done =>
    /\ ~dataOut.threw
    /\ \A i \in 1..Len(dataFile.props) :
         LET v == dataFile.props[i].v IN
         /\ ResolutionFails(dataFile, i) => dataOut.diagnostics # <<>>
         /\ (v.kind # "plain" /\ ~ResolutionFails(dataFile, i)) =>
              dataFile.props[i].k \in DOMAIN dataOut.output

\* ---------------------------------------------------------------------
\* The rate limiter over time
\* ---------------------------------------------------------------------

MaxMs == 300
MaxMade == 12

\* the steps Date.now() takes between two calls: half a token, and a token
\* and a half, of refill at the default rate
TimeSteps == {100, 300}

\* one call of checkRateLimit(orgId, ip) (schema.ts lines 157-172); lim
\* counts the calls and the allowed calls made per organisation while no
\* time has elapsed since the limiter was cleared, and records the call
CheckRateLimit ==
  \E org \in Orgs, ip \in Ips :
    LET r == checkRateLimit(orgBuckets, ipWindows, org, ip, nowMs)
        avail == refilled(orgBuckets, org, DefaultRate, DefaultBurst, nowMs)
        n == IF r.allowed THEN 1 ELSE 0
    IN /\ lim.fresh => lim.made[org] < MaxMade
       /\ orgBuckets' = r.buckets
       /\ ipWindows' = r.windows
       /\ lim' = [fresh |-> lim.fresh,
                  made |-> IF lim.fresh
                           THEN [lim.made EXCEPT ![org] = @ + 1] ELSE lim.made,
                  allowedN |-> IF lim.fresh
                               THEN [lim.allowedN EXCEPT ![org] = @ + n]
                               ELSE lim.allowedN,
                  last |-> [org |-> org, ip |-> ip, allowed |-> r.allowed,
                            reason |-> r.reason, avail |-> avail]]
       /\ UNCHANGED <<nowMs, ipAllowed, handlerVars, storeVars, dataVars, pureVars>>

\* time passes between two calls
AdvanceTime ==
  \E d \in TimeSteps :
    /\ nowMs + d <= MaxMs
    /\ nowMs' = nowMs + d
    /\ lim' = [fresh |-> FALSE, made |-> [o \in Orgs |-> 0],
               allowedN |-> [o \in Orgs |-> 0], last |-> lim.last]
    /\ UNCHANGED <<orgBuckets, ipWindows, ipAllowed, handlerVars, storeVars, dataVars, pureVars>>

LimNext == CheckRateLimit \/ AdvanceTime

\* the limiter is used before the handler is called
LimSpecInit == Init /\ HandlerIdle

SpecLimit == LimSpecInit /\ [][LimNext]_vars

\* C13: with no time elapsed since the limiter was cleared, the calls of
\* checkRateLimit allowed for an organisation are exactly its first 10 (the
\* 11th and later ones are denied); in every reachable state the token count
\* of every bucket is between 0 and the burst of 10 tokens; and a call is
\* allowed only when at least one whole token was available after the refill.
C13_BurstThenDeny ==
  /\ lim.fresh => \A o \in Orgs : lim.allowedN[o] = MinOf(lim.made[o], 10)
  /\ \A o \in DOMAIN orgBuckets :
       /\ orgBuckets[o].tokens >= 0
       /\ orgBuckets[o].tokens <= 10 * MilliTokens
  /\ lim.last.allowed => lim.last.avail >= MilliTokens
  /\ (lim.last.org # "" /\ ~lim.last.allowed) => lim.last.avail < MilliTokens

C13_Witness ==
  /\ lim.fresh
  /\ lim.made["org-a"] = 11
  /\ lim.allowedN["org-a"] = 10
  /\ ~lim.last.allowed
  /\ lim.last.org = "org-a"
  /\ lim.last.reason = "org_rate_limit"
  /\ orgBuckets["org-a"].tokens = 0


\* ---------------------------------------------------------------------
\* A quad store in use
\* ---------------------------------------------------------------------

MaxQuads == 2

StoreKinds == {"InMemoryQuadStore", "SimpleQuadStore"}

\* the subject of a document without @id is '' (eval-data.ts line 337), and a
\* quad of the evaluator has no graph
Quads ==
  {StoreQuad(s, p, o, g) : s \in {"", "ex:a"}, p \in {"ex:p", "ex:q"},
                           o \in {"1", "2"}, g \in {None, Some("g1")}}

MatchArgs ==
  {<<s, p, o, g>> : s \in {None, Some(""), Some("ex:a")},
                    p \in {None, Some("ex:p")},
                    o \in {None, Some(""), Some("1")},
                    g \in {None, Some("g1")}}

StoreAdd ==
  \E q \in Quads :
    /\ size(store) < MaxQuads
    /\ store' = addQuad(store, q)
    /\ storeHist' = [NoStoreOp EXCEPT !.op = "add", !.before = store.quads,
                                      !.quads = <<q>>]
    /\ UNCHANGED <<handlerVars, limVars, dataVars, pureVars>>

StoreAddAll ==
  \E q1 \in Quads, q2 \in Quads :
    /\ size(store) + 2 <= MaxQuads
    /\ store' = addAll(store, <<q1, q2>>)
    /\ storeHist' = [NoStoreOp EXCEPT !.op = "addAll", !.before = store.quads,
                                      !.quads = <<q1, q2>>]
    /\ UNCHANGED <<handlerVars, limVars, dataVars, pureVars>>

StoreMatch ==
  \E a \in MatchArgs :
    /\ storeHist' = [NoStoreOp EXCEPT !.op = "match", !.before = store.quads,
                                      !.args = a,
                                      !.result = match(store, a[1], a[2], a[3], a[4])]
    /\ UNCHANGED <<store, handlerVars, limVars, dataVars, pureVars>>

\* new InMemoryQuadStore(), new SimpleQuadStore()
StoreNew ==
  \E k \in StoreKinds :
    /\ store' = NewStore(k)
    /\ storeHist' = NoStoreOp
    /\ UNCHANGED <<handlerVars, limVars, dataVars, pureVars>>

StoreNext == StoreNew \/ StoreAdd \/ StoreAddAll \/ StoreMatch

StoreSpecInit == Init /\ HandlerIdle

SpecStore == StoreSpecInit /\ [][StoreNext]_vars

\* C14: adding a triple equal (same s, p, o, g) to one the store already
\* holds leaves the store unchanged: size() and the result of every match()
\* are what they were before the add.
C14_AddIdempotent ==
  (/\ storeHist.op = "add"
   /\ \E i \in 1..Len(storeHist.before) : storeHist.before[i] = storeHist.quads[1])
  => LET old == [store EXCEPT !.quads = storeHist.before]
     IN /\ size(store) = size(old)
        /\ \A a \in MatchArgs :
             match(store, a[1], a[2], a[3], a[4]) = match(old, a[1], a[2], a[3], a[4])

\* C15: match(s, p, o, g) returns exactly the stored triples that equal the
\* given value at every position that was given; only a position that was
\* not given (undefined) is a wildcard.
C15_MatchExact ==
  storeHist.op = "match" =>
    LET a == storeHist.args
    IN storeHist.result =
         SelectSeq(store.quads, LAMBDA q :
           /\ a[1] # None => Some(q.s) = a[1]
           /\ a[2] # None => Some(q.p) = a[2]
           /\ a[3] # None => Some(q.o) = a[3]
           /\ a[4] # None => q.g = a[4])

(***************************************************************************)
(* Quantity arithmetic                                                     *)
(*                                                                         *)
(* Two properties of a document hold quantity literals, indexComputations  *)
(* parses them into env (part_004 lines 178-186), and an expression        *)
(* combines the two with one binary operator; evalLayer serializes the     *)
(* result (part_004 line 64).                                              *)
(***************************************************************************)
MaxMagnitude == 2
QtyUnitTexts ==
  {<<u>> : u \in UnitNames} \cup
  {<<"km", "/", "h">>, <<"m", "/", "s">>, <<"m", "/", "m">>, <<"m", "*", "m">>,
   <<"m^2">>, <<"m", "*", "s^-1">>, <<"USD", "/", "EUR">>}
QtyLiterals == {QtyLiteral(n, u) : n \in 1..MaxMagnitude, u \in QtyUnitTexts}

QtyBinary ==
  \E la \in QtyLiterals, lb \in QtyLiterals, op \in QtyOps :
    LET a == parseQuantityLiteralLocal(la)
        b == parseQuantityLiteralLocal(lb)
        res == qtyBinary(op, a, b) IN
    /\ qty = NoQtyCall
    /\ qty' = [op |-> op, a |-> a, b |-> b, res |-> res,
               text |-> IF res.ok THEN serializeQuantity(res.q) ELSE NoQtyCall.text]
    /\ UNCHANGED <<handlerVars, limVars, storeVars, dataVars, canon, pat>>

QtyNext == QtyBinary
QtySpecInit == Init /\ HandlerIdle
SpecQty == QtySpecInit /\ [][QtyNext]_vars

\* the exponent vectors as mathematics has them: a missing key is exponent 0
DimEq(d1, d2) == \A k \in DimNames : DimGet(d1, k) = DimGet(d2, k)
NoZeroExponent(d) == \A k \in DOMAIN d : d[k] # 0

\* C21: a + b and a - b are defined only for operands of equal dim and keep
\* that dim; the dim of a * b is the component-wise sum and the dim of a / b
\* the component-wise difference of the operands' dims; and no dim vector
\* produced by these operations has a key with exponent 0.
C21_UnitAlgebra ==
  (qty.op # "none" /\ qty.res.ok) =>
    LET da == qty.a.unit.dim
        db == qty.b.unit.dim
        dr == qty.res.q.unit.dim IN
    /\ qty.op \in {"+", "-"} => DimEq(da, db) /\ DimEq(dr, da)
    /\ qty.op = "*" => \A k \in DimNames : DimGet(dr, k) = DimGet(da, k) + DimGet(db, k)
    /\ qty.op = "/" => \A k \in DimNames : DimGet(dr, k) = DimGet(da, k) - DimGet(db, k)
    /\ NoZeroExponent(dr)

\* the registered unit with the identity conversion that has the dim of u
BaseUnitName(u) ==
  LET hits == SelectSeq(listUnits, LAMBDA nm :
                getUnit(nm).dim = u.dim /\ getUnit(nm).factor = Rat(1, 1))
  IN getUnit(hits[1]).name

\* C30: the sum of two quantities of one registered unit u whose conversion
\* to base is not the identity is emitted as the magnitude a.n + b.n with the
\* name of u, or as the base magnitude with the name of the base unit.
C30_SumTextDenotesSum ==
  (/\ qty.op = "+"
   /\ qty.a.unit.name = qty.b.unit.name
   /\ Len(qty.a.unit.name) = 1
   /\ qty.a.unit.name[1] \in UnitNames
   /\ qty.a.unit.factor # Rat(1, 1)) =>
    /\ qty.res.ok
    /\ \/ /\ qty.text.n = RatAdd(qty.a.n, qty.b.n)
          /\ qty.text.code = qty.a.unit.name
       \/ /\ qty.text.n = RatAdd(toBase(qty.a.unit, qty.a.n), toBase(qty.b.unit, qty.b.n))
          /\ qty.text.code = BaseUnitName(qty.a.unit)

\* C22: evalDocument leaves every object of its input with the own
\* properties it had before the call: none receives a property.
C22_InputNotMutated == cached = {}

(***************************************************************************)
(* canonicalize applied to JSON values                                     *)
(***************************************************************************)
MaxCanonKeys == 2
KeyA == <<97>>
KeyB == <<98>>
Key2 == <<50>>
Key10 == <<49, 48>>
CanonKeys == {KeyA, KeyB, Key2, Key10, ProtoKey}
\* the objects with up to n members, values from vs, as JSON.parse builds
\* them from texts with the members in any order
ObjectsOf(n, vs) ==
  {CObj(DefineAll(ps, 1, <<>>)) :
     ps \in UNION {{q \in [1..m -> [k : CanonKeys, v : vs]] :
                      \A i, j \in 1..m : i # j => q[i].k # q[j].k} : m \in 0..n}}
CanonLeaves == {CNull, CNum(1)}
InnerObjects == ObjectsOf(MaxCanonKeys, {CNum(1)})
InnerValues == CanonLeaves \cup InnerObjects \cup {CArr(<<>>)} \cup {CArr(<<o>>) : o \in InnerObjects}
CanonInputs == InnerValues \cup ObjectsOf(1, InnerValues) \cup ObjectsOf(MaxCanonKeys, CanonLeaves)

Canonicalize ==
  \E x \in CanonInputs :
    /\ canon = NoCanonCall
    /\ canon' = [done |-> TRUE, value |-> x, text |-> canonicalize(x),
                 again |-> canonicalize(JSONparse(canonicalize(x)))]
    /\ UNCHANGED <<handlerVars, limVars, storeVars, dataVars, qty, pat>>

CanonNext == Canonicalize
CanonSpecInit == Init /\ HandlerIdle
SpecCanon == CanonSpecInit /\ [][CanonNext]_vars

RECURSIVE SortedEverywhere(_)
\* the keys of every object of v, at every level, are in ascending
\* lexicographic order
SortedEverywhere(v) ==
  /\ \A i, j \in 1..Len(v.entries) : i < j => LexLess(v.entries[i].k, v.entries[j].k)
  /\ \A i \in 1..Len(v.entries) : SortedEverywhere(v.entries[i].v)
  /\ \A i \in 1..Len(v.items) : SortedEverywhere(v.items[i])

RECURSIVE SameKeys(_, _)
\* v and w have the same shape and every object of v the keys of its
\* counterpart in w
SameKeys(v, w) ==
  /\ v.t = w.t
  /\ {v.entries[i].k : i \in 1..Len(v.entries)} = {w.entries[i].k : i \in 1..Len(w.entries)}
  /\ \A i \in 1..Len(v.entries) :
       \A j \in 1..Len(w.entries) :
         v.entries[i].k = w.entries[j].k => SameKeys(v.entries[i].v, w.entries[j].v)
  /\ Len(v.items) = Len(w.items)
  /\ \A i \in 1..Len(v.items) : i <= Len(w.items) => SameKeys(v.items[i], w.items[i])

\* C23: canonicalize writes the keys of every object, at every level, in
\* lexicographic order and without white space, and canonicalizing the
\* parsed text gives the same text again.
C23_CanonicalKeysAndRoundTrip ==
  canon.done =>
    /\ SameKeys(canon.value, TextOrder(canon.text))
    /\ SortedEverywhere(TextOrder(canon.text))
    /\ \A i \in 1..Len(canon.text) : canon.text[i].t # "ws"
    /\ canon.again = canon.text

(***************************************************************************)
(* Iterations of a fixpoint layer                                          *)
(***************************************************************************)
RECURSIVE PassesOf(_, _, _, _, _)
\* the stores after k more passes of evalLayer over nodes; the loop makes a
\* further pass only after one that reported a change
PassesOf(nodes, k, s0, subj, env) ==
  IF k = 0 THEN s0
  ELSE LET s1 == evalLayer(nodes, s0, subj, env) IN
       IF ~s1.changed THEN s1 ELSE PassesOf(nodes, k - 1, s1, subj, env)

\* the stores as they stood when the pass under way began: the layers before
\* layer li evaluated, and iter passes over layer li
PassStart ==
  LET ix == indexComputations(input.doc)
      env == [now |-> clock]
      s0 == [state |-> ix.env, quads |-> ix.quads, diags |-> <<>>, changed |-> FALSE]
  IN PassesOf(layers[li].nodes, iter,
              evalLayers(SubSeq(layers, 1, li - 1), 1, s0, subject, env), subject, env)

\* C24: in an iteration of a fixpoint layer, every node finds for the names
\* it reads the values the previous iteration left: what another node of the
\* layer wrote in this iteration is not yet visible.
C24_ReadsPreviousIteration ==
  (AtNode /\ layers[li].fixpoint) =>
    \A r \in CurNode.reads : Lookup(st.state, r) = Lookup(PassStart.state, r)

\* node n, evaluated against the stores s, computes no value that differs by
\* deepEqual from the value stored under its key: its expression throws, or
\* the value is the stored one; a constraint stores nothing, and a query
\* without rows computes nothing
ValueUnchanged(n, s) ==
  CASE n.kind \in {"expr", "view"} ->
         LET r == evalExpr(n.exprAst, ScopeOf(s.state), [now |-> clock]) IN
         r.ok => deepEqual(r.v, Lookup(s.state, Key(n.plainKey)))
    [] n.kind = "query" -> runQuery(s.quads, n.queryAst) = <<>>
    [] OTHER -> TRUE

RECURSIVE QuietFrom(_, _, _)
\* no node from position i on computes a differing value in a pass that
\* reached position i with the stores s
QuietFrom(nodes, i, s) ==
  i <= Len(nodes) =>
    /\ ValueUnchanged(nodes[i], s)
    /\ QuietFrom(nodes, i + 1, EvalNode(nodes[i], s, subject, [now |-> clock]))

MaxPatterns == 2
MaxStored == 2
IriA == "http://ex/a"
IriB == "http://ex/b"
IriP == "http://ex/p"
StoredQuads ==
  {StoreQuad(IriA, IriP, IriA, None), StoreQuad(IriA, IriP, IriB, None),
   StoreQuad(IriB, IriP, IriA, None), StoreQuad(IriA, IriA, IriB, None),
   StoreQuad(IriP, IriP, IriP, None)}
SrcPatterns ==
  [s : {SrcTerm(TRUE, "x"), SrcTerm(FALSE, IriA)},
   p : {SrcTerm(TRUE, "x"), SrcTerm(TRUE, "y"), SrcTerm(FALSE, IriP)},
   o : {SrcTerm(TRUE, "x"), SrcTerm(TRUE, "y")}]

RunPatterns ==
  \E qds \in UNION {[1..n -> StoredQuads] : n \in 0..MaxStored},
     src \in UNION {[1..n -> SrcPatterns] : n \in 1..MaxPatterns} :
    LET patterns == [i \in 1..Len(src) |-> normalizePattern(src[i])] IN
    /\ pat = NoPatCall
    /\ pat' = [done |-> TRUE, quads |-> qds, patterns |-> patterns,
               rows |-> applyPatterns(addAll(NewStore("InMemoryQuadStore"), qds),
                                      patterns, 1, <<EmptyRow>>)]
    /\ UNCHANGED <<handlerVars, limVars, storeVars, dataVars, qty, canon>>

PatNext == RunPatterns
PatSpecInit == Init /\ HandlerIdle
SpecPat == PatSpecInit /\ [][PatNext]_vars

\* the positions of a triple and of a pattern
Positions == {"s", "p", "o"}
At(tp, pos) == IF pos = "s" THEN tp.s ELSE IF pos = "p" THEN tp.p ELSE tp.o

\* C26: in every result row a variable is bound to one value, and that value
\* is the component the matched triple has at each place where the variable
\* occurs: subject, predicate or object, in one pattern or in several.
C26_VariablesUnified ==
  pat.done =>
    \A r \in 1..Len(pat.rows) :
      \A i \in 1..Len(pat.patterns) :
        \A pos \in Positions :
          LET t == At(pat.patterns[i], pos) IN
          t.kind = "var" =>
            /\ t.v \in DOMAIN pat.rows[r].b
            /\ pat.rows[r].b[t.v] = At(pat.rows[r].hits[i], pos)

(***************************************************************************)
(* Documents in which two property keys expand to the same IRI             *)
(***************************************************************************)
\* under CtxEx the plain key a and the CURIE ex:a both expand to
\* https://ex/a
SameIriKeys == {"a", "ex:a", "b"}
SameIriValues ==
  {Directive("expr", SrcOne), Directive("expr", SrcAPlus1),
   Directive("expr", SrcBPlus1), Directive("constraint", SrcAGe0)}
SameIriDocs ==
  {Doc(CtxEx, ps) :
     ps \in UNION {{qs \in [1..n -> [k : SameIriKeys, v : SameIriValues]] :
                      \A i, j \in 1..n : i # j => qs[i].k # qs[j].k} : n \in 2..3}}

DagInit ==
  /\ input \in {Input(d, NoOptions) : d \in SameIriDocs}
  /\ pc = "call"
  /\ signal \in BOOLEAN
  /\ raised = "never"
  /\ subject = NoSubject
  /\ layers = <<>>
  /\ li = 1 /\ ni = 1 /\ iter = 0 /\ changed = FALSE
  /\ st = EmptySt
  /\ evals = [x \in {} |-> 0]
  /\ passes = <<>>
  /\ out = NoOut
  /\ clock = 0
  /\ calls = <<>>
  /\ started = 0
  /\ reqId = 0
  /\ cached = {}
  /\ LimInit
  /\ StoreInit
  /\ DataInit
  /\ PureInit

SpecDag == DagInit /\ [][Next]_vars

\* the places <<l, j>> of the layers at which the node stands
PlacesOf(node) ==
  {pl \in UNION {{<<l, j>> : j \in 1..Len(layers[l].nodes)} : l \in 1..Len(layers)} :
     layers[pl[1]].nodes[pl[2]] = node}

DistinctIris(nodes) == \A i, j \in 1..Len(nodes) : i # j => nodes[i].id # nodes[j].id

\* C27: once the document is indexed and scheduled, every node the indexer
\* produced stands at exactly one place of the layers, and a fixpoint layer
\* is the last layer (so there is at most one).
C27_ScheduledExactlyOnce ==
  pc \in {"layers", "evaluated"} =>
    LET nodes == indexComputations(input.doc).nodes IN
    /\ \A i \in 1..Len(nodes) : Cardinality(PlacesOf(nodes[i])) = 1
    /\ \A l \in 1..Len(layers) : layers[l].fixpoint => l = Len(layers)

(***************************************************************************)
(* One address that goes through organisations                             *)
(***************************************************************************)
\* a client at one address that moves on to the next organisation once the
\* buckets of the ones before it are empty, and may try the last empty one
\* again: ten organisations of ten tokens fill the window of 100 requests,
\* the eleventh meets it full
RotOrgs ==
  <<"org-01", "org-02", "org-03", "org-04", "org-05", "org-06",
    "org-07", "org-08", "org-09", "org-10", "org-11">>
RotIp == "10.0.0.1"

Exhausted(org) ==
  /\ org \in DOMAIN orgBuckets
  /\ refilled(orgBuckets, org, DefaultRate, DefaultBurst, nowMs) < MilliTokens

\* one call of checkRateLimit(orgId, ip) (schema.ts lines 157-172)
RotatingCall ==
  \E i \in 1..Len(RotOrgs) :
    LET r == checkRateLimit(orgBuckets, ipWindows, RotOrgs[i], RotIp, nowMs)
        avail == refilled(orgBuckets, RotOrgs[i], DefaultRate, DefaultBurst, nowMs)
    IN /\ \A j \in 1..(i - 1) : Exhausted(RotOrgs[j])
       /\ \A j \in (i + 2)..Len(RotOrgs) : RotOrgs[j] \notin DOMAIN orgBuckets
       /\ IF i < Len(RotOrgs) /\ Exhausted(RotOrgs[i])
          THEN ~Exhausted(RotOrgs[i + 1]) ELSE TRUE
       /\ orgBuckets' = r.buckets
       /\ ipWindows' = r.windows
       /\ lim' = [lim EXCEPT !.last = [org |-> RotOrgs[i], ip |-> RotIp,
                                       allowed |-> r.allowed, reason |-> r.reason,
                                       avail |-> avail]]
       /\ UNCHANGED <<nowMs, ipAllowed, handlerVars, storeVars, dataVars, pureVars>>

\* the client waits once a call was denied for its address
RotWait ==
  \E d \in TimeSteps :
    /\ lim.last.reason = "ip_rate_limit"
    /\ nowMs + d <= MaxMs
    /\ nowMs' = nowMs + d
    /\ UNCHANGED <<orgBuckets, ipWindows, lim, ipAllowed, handlerVars, storeVars, dataVars, pureVars>>

RotNext == RotatingCall \/ RotWait
SpecRot == LimSpecInit /\ [][RotNext]_vars

\* the requests of the address that have not expired at the time now
Unexpired(windows, ip, now) ==
  SelectSeq(IF ip \in DOMAIN windows THEN windows[ip] ELSE <<>>,
            LAMBDA ts : now - ts < DefaultWindowMs)

\* the step is a call of checkRateLimit that was denied
DeniedCall ==
  /\ nowMs' = nowMs
  /\ lim'.last.org # ""
  /\ ~lim'.last.allowed

\* what a denied call must leave as it was: the tokens of the organisation
\* after the refill, and the unexpired requests of the address
NothingConsumed ==
  /\ refilled(orgBuckets', lim'.last.org, DefaultRate, DefaultBurst, nowMs)
       = refilled(orgBuckets, lim'.last.org, DefaultRate, DefaultBurst, nowMs)
  /\ Unexpired(ipWindows', lim'.last.ip, nowMs) = Unexpired(ipWindows, lim'.last.ip, nowMs)

\* C28: a call of checkRateLimit that is denied, by the bucket of the
\* organisation or by the window of the address, leaves the token count of
\* the organisation and the recorded requests of the address as they would be
\* without the call, refill and expiry apart.
C28_DeniedConsumesNothing == [][DeniedCall => NothingConsumed]_vars

(***************************************************************************)
(* checkIpWindow called on its own                                         *)
(***************************************************************************)
\* the limit and the window the calls are made with, and the clock
IpLimit == 2
IpWindowMs == 3
MaxIpTime == 6
IpSteps == {1, 2}
WindowIps == {"192.168.1.1", "10.0.0.1"}

\* one call of checkIpWindow(ip, limit, windowMs) (schema.ts lines 131-152)
IpCall ==
  \E ip \in WindowIps :
    LET r == checkIpWindow(ipWindows, ip, IpLimit, IpWindowMs, nowMs)
        before == IF ip \in DOMAIN ipAllowed THEN ipAllowed[ip] ELSE <<>>
    IN /\ ipWindows' = r.windows
       /\ ipAllowed' = MapSet(ipAllowed, ip,
                              IF r.allowed THEN Append(before, nowMs) ELSE before)
       /\ lim' = [lim EXCEPT !.last = [org |-> "", ip |-> ip, allowed |-> r.allowed,
                                       reason |-> "", avail |-> 0]]
       /\ UNCHANGED <<orgBuckets, nowMs, handlerVars, storeVars, dataVars, pureVars>>

\* Date.now() moves on between two calls
IpTick ==
  \E d \in IpSteps :
    /\ nowMs + d <= MaxIpTime
    /\ nowMs' = nowMs + d
    /\ UNCHANGED <<orgBuckets, ipWindows, lim, ipAllowed, handlerVars, storeVars,
                   dataVars, pureVars>>

IpNext == IpCall \/ IpTick
SpecIp == LimSpecInit /\ [][IpNext]_vars

\* the allowed calls of the address with a time in [from, from + length)
AllowedWithin(ip, from, length) ==
  {k \in 1..Len(ipAllowed[ip]) :
     from <= ipAllowed[ip][k] /\ ipAllowed[ip][k] < from + length}

\* C29: for every address, of the calls of checkIpWindow made at times that
\* never decrease, at most limit calls with a time in one interval shorter
\* than windowMs are allowed (times are whole milliseconds, so the longest
\* such interval holds the times from, ..., from + windowMs - 1).
C29_WindowBound ==
  \A ip \in DOMAIN ipAllowed :
    \A from \in 0..nowMs :
      Cardinality(AllowedWithin(ip, from, IpWindowMs)) <= IpLimit

\* the window has slid: more than limit calls were allowed in all, the
\* window is full again and the last call was denied
C29_Witness ==
  /\ lim.last.ip \in DOMAIN ipAllowed
  /\ ~lim.last.allowed
  /\ Len(ipAllowed[lim.last.ip]) > IpLimit
  /\ Cardinality(AllowedWithin(lim.last.ip, nowMs - IpWindowMs + 1, IpWindowMs)) = IpLimit

====
